---- MODULE Spec2Model ----
(***************************************************************************)
(* A model of the ts3_query client library: the escape codec (raw.rs),     *)
(* the framed response reader and status-line decoder of QueryClient       *)
(* (lib.rs) and the health-checking ManagedConnection (managed.rs).        *)
(*                                                                         *)
(* A byte is a short string: printable ASCII bytes are written as          *)
(* themselves ("a", "=", " ", "\\"), the control bytes by their names      *)
(* ("NUL", "BEL", "BS", "TAB", "LF", "VT", "FF", "CR") and "xFF" is the    *)
(* byte 0xFF, which occurs in no valid UTF-8 text.  A string, a line and   *)
(* the contents of a TCP stream are sequences of bytes.                    *)
(***************************************************************************)
EXTENDS Integers, Sequences, FiniteSets, TLC

VARIABLES
    \* the codec applied to one input
    c_in, c_esc, c_out, c_pc,
    \* one QueryClient and the server end of its stream
    rx,                 \* bytes that arrived and are not yet read
    late,               \* bytes the server sent that have not arrived yet
    eof,                \* the server closed the stream (after rx)
    tx,                 \* the command lines written so far
    limit_lines,        \* QueryClient.limit_lines
    limit_lines_bytes,  \* QueryClient.limit_lines_bytes
    ret,                \* what the last command operation returned
    clean,              \* every operation so far read through a status line
    \* one ManagedConnection; its QueryClient is the one above
    live,               \* ManagedConnection::new has succeeded
    cfg,                \* ManagedConnection.cfg
    last_ping,          \* ManagedConnection.last_ping, in milliseconds
    conn_id,            \* ManagedConnection.conn_id
    now,                \* the clock, in milliseconds
    gen,                \* the streams this ManagedConnection opened so far
    released,           \* the streams whose QueryClient was dropped
    mret,               \* the last operation on the ManagedConnection
    sid,                \* the stream ManagedConnection.conn holds (0: none)
    sibling,            \* the ManagedConnection the last clone() returned
    calc,               \* a call of calc_name_retry: its inputs and result
    call                \* calls of a function of raw.rs or of a command operation

vars == <<c_in, c_esc, c_out, c_pc,
          rx, late, eof, tx, limit_lines, limit_lines_bytes, ret, clean,
          live, cfg, last_ping, conn_id, now, gen, released, mret, sid, sibling, calc, call>>

----------------------------------------------------------------------------
(* Bytes *)

BSL == "\\"
NUL == "NUL"
CR  == "CR"
LF  == "LF"

\* Longest string fed to the codec.
MaxStr == 3

SeqsUpTo(S, n) == UNION {[1..k -> S] : k \in 0..n}

\* The codec is not in use.
CodecIdle == c_in = <<>> /\ c_esc = <<>> /\ c_out = <<>> /\ c_pc = "idle"

----------------------------------------------------------------------------
(* raw.rs: escape_arg / Escape / unescape_val *)

\* Escape::new: the adaptor starts with an empty one-byte buffer (0).
EscapeNew(i) == [inner |-> i, buffer |-> NUL]

\* An escaper that leaves the pipe as it is.
EscapeMarkerPipePlain(ch) ==
    CASE ch = BSL   -> ch
      [] ch = "/"   -> ch
      [] ch = " "   -> "s"
      [] ch = "BEL" -> "a"
      [] ch = "BS"  -> "b"
      [] ch = "FF"  -> "f"
      [] ch = LF    -> "n"
      [] ch = CR    -> "r"
      [] ch = "TAB" -> "t"
      [] ch = "VT"  -> "v"
      [] OTHER      -> NUL

\* An escaper that leaves the slash as it is.
EscapeMarkerSlashPlain(ch) ==
    CASE ch = BSL   -> ch
      [] ch = " "   -> "s"
      [] ch = "|"   -> "p"
      [] ch = "BEL" -> "a"
      [] ch = "BS"  -> "b"
      [] ch = "FF"  -> "f"
      [] ch = LF    -> "n"
      [] ch = CR    -> "r"
      [] ch = "TAB" -> "t"
      [] ch = "VT"  -> "v"
      [] OTHER      -> NUL

\* The marker byte Escape::next puts in the buffer for ch; NUL for a byte
\* that is not escaped.
EscapeMarker(ch) ==
    CASE ch = BSL   -> ch
      [] ch = "/"   -> ch
      [] ch = " "   -> "s"
      [] ch = "|"   -> "p"
      [] ch = "BEL" -> "a"
      [] ch = "BS"  -> "b"
      [] ch = "FF"  -> "f"
      [] ch = LF    -> "n"
      [] ch = CR    -> "r"
      [] ch = "TAB" -> "t"
      [] ch = "VT"  -> "v"
      [] OTHER      -> NUL

\* Escape::next: [some, item, it] -- the Option<u8> and the adaptor after it.
EscapeNext(it) ==
    IF it.buffer # NUL
    THEN [some |-> TRUE, item |-> it.buffer, it |-> [it EXCEPT !.buffer = NUL]]
    ELSE IF it.inner # <<>>
    THEN LET ch == Head(it.inner)
             rest == Tail(it.inner)
         IN IF EscapeMarker(ch) # NUL
            THEN [some |-> TRUE, item |-> BSL,
                  it |-> [inner |-> rest, buffer |-> EscapeMarker(ch)]]
            ELSE [some |-> TRUE, item |-> ch,
                  it |-> [inner |-> rest, buffer |-> NUL]]
    ELSE [some |-> FALSE, item |-> NUL, it |-> it]

RECURSIVE EscapeCollect(_)
EscapeCollect(it) ==
    LET n == EscapeNext(it)
    IN IF n.some THEN <<n.item>> \o EscapeCollect(n.it) ELSE <<>>

\* escape_arg: collect the adaptor over the input's bytes.
escape_arg(input) == EscapeCollect(EscapeNew(input))

\* A decoder without the translation table: the byte after a backslash is
\* pushed as it is.
UnescapeByteVerbatim(n) == n

\* The byte unescape_val pushes for the byte n that follows a backslash.
UnescapeByte(n) ==
    CASE n = "s" -> " "
      [] n = "p" -> "|"
      [] n = "a" -> "BEL"
      [] n = "b" -> "BS"
      [] n = "f" -> "FF"
      [] n = "n" -> LF
      [] n = "r" -> CR
      [] n = "t" -> "TAB"
      [] n = "v" -> "VT"
      [] OTHER   -> n

\* The loop of unescape_val from byte i on, with its `escaped` flag and `res`.
RECURSIVE UnescapeLoop(_, _, _, _)
UnescapeLoop(it, i, escaped, res) ==
    IF i > Len(it) THEN res
    ELSE LET n == it[i]
         IN IF ~escaped /\ n = BSL THEN UnescapeLoop(it, i + 1, TRUE, res)
            ELSE IF escaped
            THEN UnescapeLoop(it, i + 1, FALSE, Append(res, UnescapeByte(n)))
            ELSE UnescapeLoop(it, i + 1, FALSE, Append(res, n))

unescape_val(it) == UnescapeLoop(it, 1, FALSE, <<>>)


----------------------------------------------------------------------------
(* Strings *)

Last(s) == s[Len(s)]
Front(s) == SubSeq(s, 1, Len(s) - 1)
DropFirst(s, n) == SubSeq(s, n + 1, Len(s))
StartsWith(s, p) == Len(s) >= Len(p) /\ SubSeq(s, 1, Len(p)) = p
EndsWith(s, b) == s # <<>> /\ Last(s) = b

\* The index of the first b in s, 0 when there is none.
IndexOf(s, b) ==
    IF \E i \in 1..Len(s) : s[i] = b
    THEN CHOOSE i \in 1..Len(s) : s[i] = b /\ \A j \in 1..(i - 1) : s[j] # b
    ELSE 0

\* str::split(sep): the pieces between the separators, empty ones kept.
RECURSIVE Split(_, _)
Split(s, sep) ==
    LET k == IndexOf(s, sep)
    IN IF k = 0 THEN <<s>>
       ELSE <<SubSeq(s, 1, k - 1)>> \o Split(DropFirst(s, k), sep)

Digits == {"0", "1", "2", "3", "4", "5", "6", "7", "8", "9"}
DigitVal(d) == CHOOSE v \in 0..9 : <<"0", "1", "2", "3", "4", "5", "6", "7", "8", "9">>[v + 1] = d

RECURSIVE DecVal(_)
DecVal(ds) == IF ds = <<>> THEN 0 ELSE DecVal(Front(ds)) * 10 + DigitVal(Last(ds))

\* str::parse::<usize>: an optional "+", then one or more decimal digits.
\* (The numbers of this model are far below usize::MAX.)
ParseUsize(s) ==
    LET ds == IF s # <<>> /\ Head(s) = "+" THEN Tail(s) ELSE s
    IN IF ds # <<>> /\ \A i \in 1..Len(ds) : ds[i] \in Digits
       THEN [ok |-> TRUE, val |-> DecVal(ds)]
       ELSE [ok |-> FALSE, val |-> 0]

\* String::from_utf8 succeeds: 0xFF is the model's only ill-formed byte.
ValidUtf8(buffer) == \A i \in 1..Len(buffer) : buffer[i] # "xFF"

----------------------------------------------------------------------------
(* lib.rs: Ts3Error and the results of an operation *)

\* Result<Vec<String>, Ts3Error> as a record: kind is "Ok" or the error's
\* variant; response the Vec<String> of Ok and of ResponseLimit; id and msg the
\* ErrorResponse of ServerError; context and data those of InvalidResponse.
Result(kind, response, id, msg, context, data) ==
    [kind |-> kind, response |-> response, id |-> id, msg |-> msg,
     context |-> context, data |-> data]

Ok(v) == Result("Ok", v, 0, <<>>, "", <<>>)
ServerError(id, msg) == Result("ServerError", <<>>, id, msg, "", <<>>)
InvalidResponse(context, data) == Result("InvalidResponse", <<>>, 0, <<>>, context, data)
ResponseLimit(response) == Result("ResponseLimit", response, 0, <<>>, "", <<>>)
ConnectionClosed == Result("ConnectionClosed", <<>>, 0, <<>>, "", <<>>)
Utf8Error == Result("Utf8Error", <<>>, 0, <<>>, "", <<>>)
Io(context) == Result("Io", <<>>, 0, <<>>, context, <<>>)

LIMIT_READ_LINES == 100
LIMIT_LINE_BYTES == 64000

----------------------------------------------------------------------------
(* lib.rs: QueryClient::check_ok *)

\* check_ok without the test for id 0: every parsed status is an error.
CheckIdAlwaysError(id, msg) == ServerError(id, unescape_val(msg))

\* The branch of check_ok taken once the id parsed.
CheckId(id, msg) ==
    IF id # 0 THEN ServerError(id, unescape_val(msg)) ELSE Ok(<<>>)

check_ok(msg) ==
    LET result == Split(msg, " ")
    IN IF Len(result) >= 3
       THEN LET split_id == Split(result[2], "=")
                split_msg == Split(result[3], "=")
            IN IF Len(split_id) >= 2 /\ Len(split_msg) >= 2
               THEN LET id == ParseUsize(split_id[2])
                    IN IF id.ok THEN CheckId(id.val, split_msg[2])
                       ELSE InvalidResponse("expected usize, got ", split_msg[2])
               ELSE InvalidResponse("expected id and msg, got ", msg)
       ELSE InvalidResponse("expected id and msg, got ", msg)

----------------------------------------------------------------------------
(* lib.rs: QueryClient::read_response *)

\* A reader whose limit is not counted down by the bytes it hands out.
read_until_keeps_limit(inner, limit, closed) ==
    LET k == IndexOf(inner, CR)
        take(n, e) == [err |-> e, n |-> n, buffer |-> SubSeq(inner, 1, n),
                       inner |-> DropFirst(inner, n), limit |-> limit]
    IN IF limit = 0 THEN take(0, FALSE)
       ELSE IF k # 0 /\ k <= limit THEN take(k, FALSE)
       ELSE IF Len(inner) >= limit THEN take(limit, FALSE)
       ELSE take(Len(inner), ~closed)

\* lr.read_until(b'\r', &mut buffer) on lr = Take{inner, limit}: bytes are
\* taken up to and including the first CR, until the limit is used up, or
\* until the stream ends.  A stream that is not closed and holds no more
\* bytes makes the read time out (err).  [err, n, buffer, inner, limit]
read_until(inner, limit, closed) ==
    LET k == IndexOf(inner, CR)
        take(n, e) == [err |-> e, n |-> n, buffer |-> SubSeq(inner, 1, n),
                       inner |-> DropFirst(inner, n), limit |-> limit - n]
    IN IF limit = 0 THEN take(0, FALSE)
       ELSE IF k # 0 /\ k <= limit THEN take(k, FALSE)
       ELSE IF Len(inner) >= limit THEN take(limit, FALSE)
       ELSE take(Len(inner), ~closed)

\* The limit the reader is given for the next line, at the end of an iteration.
NextLineLimit(limit) == LIMIT_LINE_BYTES

\* Stripping the CR only.
StripTerminatorCROnly(buffer) == Front(buffer)

\* buffer without its CR and without the LF before it.
StripTerminator(buffer) ==
    LET b == Front(buffer)
    IN IF EndsWith(b, LF) THEN Front(b) ELSE b

StatusPrefix == <<"e", "r", "r", "o", "r", " ">>

\* A reader that allows one line more than `lines` (declared here, defined
\* with the loop below).
RECURSIVE ReadLoop(_, _, _, _, _, _, _, _)
read_response_one_more(lines, max_bytes, inner, closed) ==
    ReadLoop(0, lines + 1, max_bytes, <<>>, inner, max_bytes, closed, <<>>)

\* What a call of read_response leaves behind: its result, the stream after
\* it, and one entry per read_until call (the limit it had, the bytes it took).
Return(result, inner, reads) == [result |-> result, inner |-> inner, reads |-> reads]

\* The for loop of read_response from iteration i on.
ReadLoop(i, n, max_bytes, result, inner, limit, closed, reads) ==
    IF i >= n THEN Return(ResponseLimit(result), inner, reads)
    ELSE
    LET r == read_until(inner, limit, closed)
        rs == Append(reads, [limit |-> limit, taken |-> r.n])
    IN IF r.err THEN Return(Io("reading response: "), r.inner, rs)
       ELSE IF r.n = 0 THEN Return(ConnectionClosed, r.inner, rs)
       ELSE IF EndsWith(r.buffer, CR)
       THEN LET buffer == StripTerminator(r.buffer)
            IN IF buffer # <<>>
               THEN IF ~ValidUtf8(buffer) THEN Return(Utf8Error, r.inner, rs)
                    ELSE IF StartsWith(buffer, StatusPrefix)
                    THEN LET c == check_ok(buffer)
                         IN Return(IF c.kind = "Ok" THEN Ok(result) ELSE c,
                                   r.inner, rs)
                    ELSE ReadLoop(i + 1, n, max_bytes, Append(result, buffer),
                                  r.inner, NextLineLimit(max_bytes), closed, rs)
               ELSE ReadLoop(i + 1, n, max_bytes, result,
                             r.inner, NextLineLimit(max_bytes), closed, rs)
       ELSE IF r.limit = 0 THEN Return(ResponseLimit(result), r.inner, rs)
       ELSE Return(InvalidResponse("expected \\r delimiter, got: ", r.buffer),
                   r.inner, rs)

\* read_response on a client with these limits, the stream holding `inner`.
read_response(lines, max_bytes, inner, closed) ==
    ReadLoop(0, lines, max_bytes, <<>>, inner, max_bytes, closed, <<>>)

----------------------------------------------------------------------------
(* The server end of the stream *)

\* Most data lines of one response, the largest limit_lines(n) the caller
\* sets, and most commands written in one run of SpecSeq.
MaxDataLines == 3
MaxLimitLines == 2
MaxCmds == 2

NL == <<LF, CR>>
Error(id, rest) == StatusPrefix \o <<"i", "d", "=">> \o id \o rest
Msg(m) == <<" ", "m", "s", "g", "=">> \o m

Field == <<"a", "=", "1">> \o NL
Blank == <<CR>>
NotUtf8 == <<"xFF">> \o NL
NoStatus == <<"e", "r", "r", "o", "r">> \o NL

\* Terminated data lines: a field, a blank line ended by a bare CR, a line
\* that is not UTF-8, and a line that only resembles a status line.
DataLines == {Field, Blank, NotUtf8, NoStatus}

StatusOk == Error(<<"0">>, Msg(<<"o", "k">>)) \o NL
StatusTaken == Error(<<"5", "1", "3">>, Msg(<<"a", BSL, "s", "b">>)) \o NL
StatusEq == Error(<<"3">>, Msg(<<"a", "=", "b">>)) \o NL
StatusNoId == Error(<<"x">>, Msg(<<"y">>)) \o NL
StatusNoMsg == Error(<<"3">>, <<>>) \o NL

\* Terminated status lines: success, two server errors (513 is in the table
\* of known codes, 3 is not), a non-numeric id and a missing msg.
StatusLines == {StatusOk, StatusTaken, StatusEq, StatusNoId, StatusNoMsg}

RECURSIVE Concat(_)
Concat(ss) == IF ss = <<>> THEN <<>> ELSE Head(ss) \o Concat(Tail(ss))

\* What the server answers to one command: data lines, then one status line.
Responses ==
    { Concat(d) \o st : d \in SeqsUpTo(DataLines, MaxDataLines), st \in StatusLines }

\* The few answers used where several commands follow each other.
SeqResponses ==
    { StatusOk, Field \o StatusOk, Field \o Field \o StatusTaken,
      NotUtf8 \o StatusOk, StatusNoMsg }

\* How the bytes p still to come reach the client while it reads: "all" of
\* them; none in time ("stall": the read times out and they arrive later); or
\* all but the last and then the server closes the stream ("close").  Once
\* the server has closed, the client's write is either accepted by the
\* socket ("gone": nothing will arrive) or fails ("epipe").
Modes == {"all", "stall", "close"}
ClosedModes == {"gone", "epipe"}

Delivery(p, mode) ==
    CASE mode = "all"   -> [arrive |-> p, late |-> <<>>, eof |-> FALSE]
      [] mode = "stall" -> [arrive |-> <<>>, late |-> p, eof |-> FALSE]
      [] mode = "close" -> [arrive |-> Front(p), late |-> <<>>, eof |-> TRUE]
      [] OTHER          -> [arrive |-> <<>>, late |-> <<>>, eof |-> TRUE]

\* The values limit_line_bytes is called with: nothing, less than any line
\* but a blank one, the length of the success status line without and with
\* its last byte, and the default.
LineByteLimits == {0, 2, 18, 19, LIMIT_LINE_BYTES}
SeqLineByteLimits == {2, LIMIT_LINE_BYTES}
SeqLimitLines == {1, LIMIT_READ_LINES}

----------------------------------------------------------------------------
(* lib.rs: the operations of QueryClient *)

\* A QueryClient and its stream as one value.
NewConn ==
    [rx |-> <<>>, late |-> <<>>, eof |-> FALSE, tx |-> <<>>,
     limit_lines |-> LIMIT_READ_LINES, limit_lines_bytes |-> LIMIT_LINE_BYTES]

\* What a command operation on c returned (result), the read_until calls
\* its read_response made (reads), the stream that call had before it (seen,
\* closed) and the limits in force.
Returned(c, result, reads, seen, closed) ==
    [result |-> result, reads |-> reads, seen |-> seen, closed |-> closed,
     lines |-> c.limit_lines, max_bytes |-> c.limit_lines_bytes]

NoReturn ==
    [result |-> Ok(<<>>), reads |-> <<>>, seen |-> <<>>, closed |-> FALSE,
     lines |-> 0, max_bytes |-> 0]

\* A command operation that writes its command line and returns without
\* reading the response.
CommandNoRead(c, command, resp, mode) ==
    LET d == Delivery(IF c.eof THEN <<>> ELSE c.late \o resp, mode)
    IN [conn |-> [c EXCEPT !.tx = Append(@, command), !.rx = c.rx \o d.arrive,
                           !.late = d.late, !.eof = d.eof],
        ret |-> Returned(c, Ok(<<>>), <<>>, c.rx \o d.arrive, d.eof)]

\* writeln!(tx, command)? and read_response()? of a command operation on c,
\* the server answering resp in the given mode: the client afterwards and
\* what the operation returned.
Command(c, command, resp, mode) ==
    IF mode = "epipe"
    THEN [conn |-> c, ret |-> Returned(c, Io(""), <<>>, c.rx, TRUE)]
    ELSE LET d == Delivery(IF c.eof THEN <<>> ELSE c.late \o resp, mode)
             seen == c.rx \o d.arrive
             r == read_response(c.limit_lines, c.limit_lines_bytes, seen, d.eof)
         IN [conn |-> [c EXCEPT !.tx = Append(@, command), !.rx = r.inner,
                                !.late = d.late, !.eof = d.eof],
             ret |-> Returned(c, r.result, r.reads, seen, d.eof)]

\* The result ends an operation that read its response through a status line.
ReadStatus(result) ==
    \/ result.kind \in {"Ok", "ServerError"}
    \/ result.kind = "InvalidResponse" /\ result.context # "expected \\r delimiter, got: "

Some(v) == [some |-> TRUE, val |-> v]
None(v) == [some |-> FALSE, val |-> v]

\* What an operation on a ManagedConnection did: its name and result, the
\* clock's reading when it was called, whether it sent the health check and
\* how that went, the connects it made (each with the commands sent on the
\* new stream and their results), and the configuration it connected with.
Did(op, result, at, pinged, ping, connects, config) ==
    [op |-> op, result |-> result, at |-> at, pinged |-> pinged, ping |-> ping,
     connects |-> connects, config |-> config]

NoCfg == [name |-> None(<<>>)]
NothingDone == Did("none", Ok(<<>>), 0, FALSE, Ok(<<>>), <<>>, NoCfg)
NoSibling ==
    [some |-> FALSE, asked |-> None(<<>>), cfg |-> NoCfg, last_ping |-> 0,
     conn_id |-> None(0)]

\* calc_name_retry is not being called.
NoCalc == [pc |-> "idle", name |-> <<>>, time |-> <<>>, out |-> <<>>]

\* No function of raw.rs and no command operation is being called.
NoCall == [pc |-> "idle"]

\* No ManagedConnection is in use.
ManagedIdle ==
    /\ live = FALSE /\ cfg = NoCfg
    /\ last_ping = 0 /\ conn_id = None(0) /\ now = 0 /\ gen = 0
    /\ released = <<>> /\ mret = NothingDone
    /\ sid = 0 /\ sibling = NoSibling /\ calc = NoCalc /\ call = NoCall

\* No client is in use.
ClientIdle ==
    /\ rx = <<>> /\ late = <<>> /\ eof = FALSE /\ tx = <<>>
    /\ limit_lines = 0 /\ limit_lines_bytes = 0
    /\ ret = NoReturn /\ clean = TRUE

\* QueryClient::new, after the handshake drained the banner.
InitClient ==
    /\ rx = <<>> /\ late = <<>> /\ eof = FALSE /\ tx = <<>>
    /\ limit_lines = LIMIT_READ_LINES
    /\ limit_lines_bytes = LIMIT_LINE_BYTES
    /\ ret = NoReturn /\ clean = TRUE

\* What an operation of one part leaves alone in the others.
CodecUnchanged == UNCHANGED <<c_in, c_esc, c_out, c_pc>>
ClientUnchanged ==
    UNCHANGED <<rx, late, eof, tx, limit_lines, limit_lines_bytes, ret, clean>>
ManagedUnchanged ==
    UNCHANGED <<live, cfg, last_ping, conn_id, now, gen, released, mret,
                sid, sibling, calc, call>>

\* QueryClient::limit_lines(limit)
LimitLines(limit) ==
    /\ limit_lines' = limit
    /\ UNCHANGED <<rx, late, eof, tx, limit_lines_bytes, ret, clean>>
    /\ CodecUnchanged /\ ManagedUnchanged

\* QueryClient::limit_line_bytes(limit)
LimitLineBytes(limit) ==
    /\ limit_lines_bytes' = limit
    /\ UNCHANGED <<rx, late, eof, tx, limit_lines, ret, clean>>
    /\ CodecUnchanged /\ ManagedUnchanged

\* The client of the variables, and the variables set from a client.
Conn ==
    [rx |-> rx, late |-> late, eof |-> eof, tx |-> tx,
     limit_lines |-> limit_lines, limit_lines_bytes |-> limit_lines_bytes]

SetConn(c) ==
    /\ rx' = c.rx /\ late' = c.late /\ eof' = c.eof /\ tx' = c.tx
    /\ limit_lines' = c.limit_lines /\ limit_lines_bytes' = c.limit_lines_bytes

\* QueryClient::raw_command(command): the server answers resp, which
\* arrives as mode says.
RawCommand(resp, mode) ==
    LET r == Command(Conn, <<"raw">>, resp, mode)
    IN /\ ~eof
       /\ SetConn(r.conn)
       /\ ret' = r.ret
       /\ clean' = (clean /\ ReadStatus(r.ret.result))
       /\ CodecUnchanged /\ ManagedUnchanged

\* raw_command on a stream the server closed.
RawCommandClosed(mode) ==
    LET r == Command(Conn, <<"raw">>, <<>>, mode)
    IN /\ eof
       /\ SetConn(r.conn)
       /\ ret' = r.ret
       /\ clean' = (clean /\ ReadStatus(r.ret.result))
       /\ CodecUnchanged /\ ManagedUnchanged

\* Bytes that were under way arrive between two operations.
ServerDeliver ==
    /\ late # <<>>
    /\ rx' = rx \o late
    /\ late' = <<>>
    /\ UNCHANGED <<eof, tx, limit_lines, limit_lines_bytes, ret, clean>>
    /\ CodecUnchanged /\ ManagedUnchanged

Init == InitClient /\ CodecIdle /\ ManagedIdle

\* One command on a new client, under any limits, answered in any way.
Next ==
    \/ tx = <<>> /\ \E resp \in Responses, mode \in Modes : RawCommand(resp, mode)
    \/ tx = <<>> /\ \E limit \in 0..MaxLimitLines : LimitLines(limit)
    \/ tx = <<>> /\ \E limit \in LineByteLimits : LimitLineBytes(limit)

Spec == Init /\ [][Next]_vars

\* Several commands on one client.
NextSeq ==
    \/ Len(tx) < MaxCmds /\ \E resp \in SeqResponses, mode \in Modes : RawCommand(resp, mode)
    \/ Len(tx) < MaxCmds /\ \E mode \in ClosedModes : RawCommandClosed(mode)
    \/ \E limit \in SeqLimitLines : LimitLines(limit)
    \/ \E limit \in SeqLineByteLimits : LimitLineBytes(limit)
    \/ ServerDeliver

SpecSeq == Init /\ [][NextSeq]_vars

\* Status lines put together from tokens: after "error", a first token, an
\* optional second and an optional third.
IdTokens ==
    { <<"i", "d", "=", "0">>, <<"i", "d", "=", "0", "0">>,
      <<"i", "d", "=", "3">>, <<"i", "d", "=", "5", "1", "3">>,
      <<"i", "d", "=", "+", "5">>, <<"i", "d", "=", "x">>, <<"i", "d", "=">>,
      <<"i", "d">>, <<"m", "s", "g", "=", "3">>, <<"x", "=", "7">>, <<>> }
MsgTokens ==
    { <<"m", "s", "g", "=", "o", "k">>, <<"m", "s", "g", "=", "a", BSL, "s", "b">>,
      <<"m", "s", "g", "=", "a", "=", "b">>, <<"m", "s", "g", "=">>,
      <<"m", "s", "g">>, <<"i", "d", "=", "4">>, <<"f", "o", "o", "=", "b", "a", "r">> }
MoreTokens == { <<"e", "x", "t", "r", "a", "=", "1">> }

StatusForms ==
    LET one == {StatusPrefix \o a : a \in IdTokens}
        two == {l \o <<" ">> \o b : l \in one, b \in MsgTokens}
        three == {l \o <<" ">> \o c : l \in two, c \in MoreTokens}
    IN {l \o NL : l \in one \cup two \cup three}

\* One command on a new client, answered by a status line of any form.
NextStatus ==
    tx = <<>> /\ \E resp \in StatusForms, mode \in Modes : RawCommand(resp, mode)

SpecStatus == Init /\ [][NextStatus]_vars

----------------------------------------------------------------------------
(* raw.rs: the parsers and the helpers that take values out of a map *)

\* char::is_whitespace, for the bytes of the model
IsWhitespace(b) == b \in {" ", "TAB", LF, "VT", "FF", CR}

\* A whitespace character of more than one byte: U+00A0, the model's only
\* one (char::is_whitespace is the Unicode property White_Space).
NBSP == <<"xC2", "xA0">>

\* The number of bytes of the whitespace character s starts with, 0 when
\* it starts with none.
WhitespaceLen(s) ==
    IF s # <<>> /\ IsWhitespace(Head(s)) THEN 1
    ELSE IF StartsWith(s, NBSP) THEN Len(NBSP)
    ELSE 0

\* str::split_whitespace: the runs of characters that are not whitespace.
RECURSIVE SplitWhitespace(_)
SplitWhitespace(s) ==
    IF s = <<>> THEN <<>>
    ELSE IF WhitespaceLen(s) > 0 THEN SplitWhitespace(DropFirst(s, WhitespaceLen(s)))
    ELSE LET ws == {i \in 1..Len(s) : WhitespaceLen(DropFirst(s, i - 1)) > 0}
             k == IF ws = {} THEN Len(s) + 1
                  ELSE CHOOSE i \in ws : \A j \in ws : i <= j
         IN <<SubSeq(s, 1, k - 1)>> \o SplitWhitespace(DropFirst(s, k - 1))

\* HashMap::new and HashMap::insert, the map a function on its keys.
EmptyMap == [k \in {} |-> None(<<>>)]

\* An insert that leaves the value of a key the map already has.
MapInsertKeepFirst(map, key, v) ==
    [k \in DOMAIN map \cup {key} |-> IF k \in DOMAIN map THEN map[k] ELSE v]

MapInsert(map, key, v) ==
    [k \in DOMAIN map \cup {key} |-> IF k = key THEN v ELSE map[k]]

\* The closure of parse_single_line_hashmap on one entry e.
InsertEntry(e, map, unescape) ==
    LET entries == Split(e, "=")
    IN IF Len(entries) >= 2
       THEN MapInsert(map, entries[1],
                      Some(IF unescape THEN unescape_val(entries[2]) ELSE entries[2]))
       ELSE IF e # <<>> THEN MapInsert(map, e, None(<<>>))
       ELSE map

RECURSIVE InsertEntries(_, _, _)
InsertEntries(es, map, unescape) ==
    IF es = <<>> THEN map
    ELSE InsertEntries(Tail(es), InsertEntry(Head(es), map, unescape), unescape)

parse_single_line_hashmap(line, map, unescape) ==
    InsertEntries(SplitWhitespace(line), map, unescape)

RECURSIVE ParseLines(_, _, _)
ParseLines(input, map, unescape) ==
    IF input = <<>> THEN map
    ELSE ParseLines(Tail(input),
                    parse_single_line_hashmap(Head(input), map, unescape), unescape)

parse_hashmap(input, unescape) == ParseLines(input, EmptyMap, unescape)

\* A parser that makes one record of each line, pipes or not.
parse_multi_hashmap_per_line(input, unescape) ==
    [i \in 1..Len(input) |-> parse_single_line_hashmap(input[i], EmptyMap, unescape)]

\* parse_multi_hashmap: the maps of the pieces between the pipes of each
\* line, flattened.
parse_multi_hashmap(input, unescape) ==
    Concat([i \in 1..Len(input) |->
              LET l == Split(input[i], "|")
              IN [j \in 1..Len(l) |->
                    parse_single_line_hashmap(l[j], EmptyMap, unescape)]])

NoEntryResponse(key) == Result("NoEntryResponse", <<>>, 0, <<>>, "", key)
NoValueResponse(key) == Result("NoValueResponse", <<>>, 0, <<>>, "", key)
InvalidIntResponse(data) == Result("InvalidIntResponse", <<>>, 0, <<>>, "", data)

\* str::parse::<ClientId>, ClientId = u16
U16_MAX == 65535
ParseClientId(s) ==
    LET p == ParseUsize(s)
    IN IF p.ok /\ p.val <= U16_MAX THEN p ELSE [ok |-> FALSE, val |-> 0]

\* str::parse::<T> for T = u16 and T = i32: i32 also takes a "-" sign.
I32_MAX == 2147483647
ParseInt(T, s) ==
    IF T = "u16" THEN ParseClientId(s)
    ELSE LET neg == s # <<>> /\ Head(s) = "-"
             ds == IF neg THEN Tail(s) ELSE s
             p == ParseUsize(ds)
         IN IF p.ok /\ ~(neg /\ Head(ds) = "+")
                    /\ (IF neg THEN p.val - 1 ELSE p.val) <= I32_MAX
            THEN [ok |-> TRUE, val |-> IF neg THEN 0 - p.val ELSE p.val]
            ELSE [ok |-> FALSE, val |-> 0]

\* A map that keeps every key.
MapRemoveNothing(map, key) == map

\* HashMap::remove: the map afterwards.
MapRemove(map, key) == [k \in DOMAIN map \ {key} |-> map[k]]

\* What a helper returns, Ok(val) or Err(err), and the map it leaves.
Extracted(val, data) == [ok |-> TRUE, val |-> val, err |-> Ok(<<>>), data |-> data]
NotExtracted(err, data) == [ok |-> FALSE, val |-> 0, err |-> err, data |-> data]

\* A helper that removes the key only when it succeeds.
int_val_parser_peek(T, data, key) ==
    IF key \notin DOMAIN data THEN NotExtracted(NoEntryResponse(key), data)
    ELSE IF ~data[key].some THEN NotExtracted(NoValueResponse(key), data)
    ELSE LET p == ParseInt(T, data[key].val)
         IN IF p.ok THEN Extracted(p.val, MapRemove(data, key))
            ELSE NotExtracted(InvalidIntResponse(data[key].val), data)

\* int_val_parser::<T>(data, key)
int_val_parser(T, data, key) ==
    IF key \notin DOMAIN data THEN NotExtracted(NoEntryResponse(key), data)
    ELSE IF ~data[key].some
    THEN NotExtracted(NoValueResponse(key), MapRemove(data, key))
    ELSE LET p == ParseInt(T, data[key].val)
         IN IF p.ok THEN Extracted(p.val, MapRemove(data, key))
            ELSE NotExtracted(InvalidIntResponse(data[key].val), MapRemove(data, key))

\* An optional helper that requires the value.
int_val_parser_opt_required(T, data, key) ==
    LET r == int_val_parser(T, data, key)
    IN IF r.ok THEN Extracted(Some(r.val), r.data) ELSE r

\* int_val_parser_opt::<T>(data, key)
int_val_parser_opt(T, data, key) ==
    IF key \notin DOMAIN data THEN NotExtracted(NoEntryResponse(key), data)
    ELSE IF data[key].some
    THEN LET p == ParseInt(T, data[key].val)
         IN IF p.ok THEN Extracted(Some(p.val), MapRemove(data, key))
            ELSE NotExtracted(InvalidIntResponse(data[key].val), MapRemove(data, key))
    ELSE Extracted(None(0), MapRemove(data, key))

\* bool_val_parser(data, key)
bool_val_parser(data, key) ==
    LET val == int_val_parser("i32", data, key)
    IN IF val.ok THEN Extracted(val.val > 0, val.data) ELSE val

\* string_val_parser_opt(data, key)
string_val_parser_opt(data, key) ==
    IF key \notin DOMAIN data THEN NotExtracted(NoEntryResponse(key), data)
    ELSE Extracted(IF data[key].some THEN Some(unescape_val(data[key].val))
                   ELSE None(<<>>),
                   MapRemove(data, key))

\* string_val_parser(data, key)
string_val_parser(data, key) ==
    LET r == string_val_parser_opt(data, key)
    IN IF ~r.ok THEN r
       ELSE IF r.val.some THEN Extracted(r.val.val, r.data)
       ELSE NotExtracted(NoValueResponse(key), r.data)

\* int_list_val_parser::<T>(data, key): the first piece that does not parse
\* ends the collect.
int_list_val_parser(T, data, key) ==
    LET v == string_val_parser(data, key)
    IN IF ~v.ok THEN v
       ELSE LET vs == Split(v.val, ",")
                bad == {i \in 1..Len(vs) : ~ParseInt(T, vs[i]).ok}
            IN IF bad = {}
               THEN Extracted([i \in 1..Len(vs) |-> ParseInt(T, vs[i]).val], v.data)
               ELSE NotExtracted(
                        InvalidIntResponse(vs[CHOOSE i \in bad : \A j \in bad : i <= j]),
                        v.data)

----------------------------------------------------------------------------
(* managed.rs: ManagedConnection *)

ERR_NAME_TAKEN == 513
MAX_LEN_NAME == 20
KEY_CLIENT_ID_SELF == <<"c", "l", "i", "e", "n", "t", "_", "i", "d">>

\* `last_ping.elapsed() < Duration::from_secs(0)`: the interval get() compares
\* with, and the interval its documentation states (1 second), in milliseconds.
CHECK_INTERVAL == 0
DOC_INTERVAL == 1000

\* The clock advances by TickMs, up to MaxTime; the server accepts
\* MaxConnects streams; get() is called while fewer than MaxManagedTx
\* commands were written on the stream, and conn_id() queries the identity
\* while its two commands leave at most MaxIdentityTx written.
TickMs == 1000
MaxTime == 1000
MaxConnects == 2
MaxManagedTx == 4
MaxIdentityTx == 5

InvalidNameLength(length, expected) ==
    Result("InvalidNameLength", <<>>, length, <<>>, "", <<>>)

\* The thread panicked: the operation did not return.
Panic == Result("Panic", <<>>, 0, <<>>, "", <<>>)

\* u16::to_string
RECURSIVE to_string(_)
to_string(n) ==
    LET d == <<"0", "1", "2", "3", "4", "5", "6", "7", "8", "9">>[(n % 10) + 1]
    IN IF n < 10 THEN <<d>> ELSE Append(to_string(n \div 10), d)

\* What the server answers to the commands of a managed connection, and to
\* `whoami` on the stream s, whose client it numbers s: the identity with
\* client_id, without it, with the key alone and with no number for it.
MResponses == {StatusOk, StatusTaken}
Identity(s) == <<"a", "=", "1", " ">> \o KEY_CLIENT_ID_SELF \o <<"=">> \o to_string(s) \o NL
IdentityKeyOnly == KEY_CLIENT_ID_SELF \o NL
IdentityNoInt == KEY_CLIENT_ID_SELF \o <<"=", "x">> \o NL
WhoamiResponses(s) ==
    {Identity(s) \o StatusOk, Field \o StatusOk, IdentityKeyOnly \o StatusOk,
     IdentityNoInt \o StatusOk, StatusTaken}
Answers(c, command) ==
    IF command = <<"whoami">> THEN WhoamiResponses(c.sid) ELSE MResponses

\* SystemTime::now() since UNIX_EPOCH, as_millis().to_string()
Timestamps == { <<"1", "7", "9", "4", "0", "0", "0", "0", "0", "0", "1", "2", "3">> }

\* The configurations: no name, a short name, one of 20 and one of 21 bytes.
ShortName == <<"b", "o", "t">>
FullName == [i \in 1..MAX_LEN_NAME |-> "m"]
LongName == [i \in 1..(MAX_LEN_NAME + 1) |-> "n"]
Cfgs == { NoCfg, [name |-> Some(ShortName)], [name |-> Some(FullName)],
          [name |-> Some(LongName)] }

\* A QueryClient on the stream s right after QueryClient::with_timeout, and
\* the one of the variables; log holds the commands of the operation under
\* way, each with what it returned; shut tells that the stream was shut down.
Stream(s) ==
    [rx |-> <<>>, late |-> <<>>, eof |-> FALSE, tx |-> <<>>,
     limit_lines |-> LIMIT_READ_LINES, limit_lines_bytes |-> LIMIT_LINE_BYTES,
     sid |-> s, log |-> <<>>, shut |-> FALSE]
Own ==
    [rx |-> rx, late |-> late, eof |-> eof, tx |-> tx,
     limit_lines |-> limit_lines, limit_lines_bytes |-> limit_lines_bytes,
     sid |-> sid, log |-> <<>>, shut |-> FALSE]

\* The command operation that went as o, entered in the client's log.
Logged(c, command, o) ==
    [conn |-> [o.conn EXCEPT !.log = Append(c.log, [command |-> command,
                                                    result |-> o.ret.result])],
     ret |-> o.ret]

\* The ways a command operation on c can go.
Outcomes(c, command) ==
    IF c.eof
    THEN {Logged(c, command, Command(c, command, <<>>, mode)) : mode \in ClosedModes}
    ELSE {Logged(c, command, Command(c, command, resp, mode))
          : resp \in Answers(c, command), mode \in Modes}

IsOk(o) == o.ret.result.kind = "Ok"

\* QueryClient::quit(): `quit` is written and no response is read; the write
\* fails on a stream the server closed, and the error is ignored.
quit(c) == IF c.eof THEN c ELSE [c EXCEPT !.tx = Append(@, <<"quit">>)]

\* A drop that shuts the stream down and then calls quit(), whose write then
\* fails.
DropShutdownFirst(c) == [c EXCEPT !.shut = TRUE]

\* Drop for QueryClient: quit(), then shutdown(Shutdown::Both), the errors
\* of both ignored.
Drop(c) == [quit(c) EXCEPT !.shut = TRUE]

\* What is kept of a dropped QueryClient: its stream, the commands written
\* on it, whether the server had closed it and whether it was shut down.
Released(c) == [sid |-> c.sid, tx |-> c.tx, eof |-> c.eof, shut |-> c.shut]

\* A multi-byte character of a name: its lead byte and its continuation byte.
LeadByte == "xC3"
ContByte == "xA9"
\* str::is_char_boundary(index)
IsCharBoundary(s, index) ==
    \/ index = 0
    \/ index = Len(s)
    \/ index < Len(s) /\ s[index + 1] # ContByte

\* &name[0..MAX_LEN_NAME / 2] in calc_name_retry panics.
CalcNamePanics(name) ==
    /\ Len(name) >= MAX_LEN_NAME - 2
    /\ ~IsCharBoundary(name, MAX_LEN_NAME \div 2)

\* calc_name_retry without the truncation of a long name.
calc_name_retry_whole_name(name, time) ==
    LET reamining == MAX_LEN_NAME - Len(name)
        t == IF reamining > Len(time)
             THEN time
             ELSE SubSeq(time, Len(time) - reamining + 1, Len(time))
    IN name \o t

\* calc_name_retry keeping the first digits of the timestamp.
calc_name_retry_leading_digits(name, time) ==
    LET base == IF Len(name) >= MAX_LEN_NAME - 2
                THEN SubSeq(name, 1, MAX_LEN_NAME \div 2)
                ELSE name
        reamining == MAX_LEN_NAME - Len(base)
        t == IF reamining > Len(time) THEN time ELSE SubSeq(time, 1, reamining)
    IN base \o t

\* ManagedConnection::calc_name_retry, with the clock's reading
calc_name_retry(name, time) ==
    LET base == IF Len(name) >= MAX_LEN_NAME - 2
                THEN SubSeq(name, 1, MAX_LEN_NAME \div 2)
                ELSE name
        reamining == MAX_LEN_NAME - Len(base)
        t == IF reamining > Len(time)
             THEN time
             ELSE SubSeq(time, Len(time) - reamining + 1, Len(time))
    IN base \o t

\* A fallback that retries after any failure of the first rename.
SetNameFallbackAnyError(c, name) ==
    UNION { IF IsOk(first)
            THEN {[conn |-> first.conn, result |-> Ok(<<>>)]}
            ELSE { [conn |-> second.conn,
                    result |-> IF IsOk(second) THEN Ok(<<>>) ELSE second.ret.result]
                   : second \in UNION { Outcomes(first.conn,
                                          <<"clientupdate", calc_name_retry(name, time)>>)
                                        : time \in Timestamps } }
          : first \in Outcomes(c, <<"clientupdate", name>>) }

\* ManagedConnection::set_name_fallback: the ways it can go, each
\* [conn, result].
SetNameFallback(c, name) ==
    UNION { IF IsOk(first)
            THEN {[conn |-> first.conn, result |-> Ok(<<>>)]}
            ELSE IF first.ret.result.kind # "ServerError"
                    \/ first.ret.result.id # ERR_NAME_TAKEN
            THEN {[conn |-> first.conn, result |-> first.ret.result]}
            ELSE IF CalcNamePanics(name)
            THEN {[conn |-> first.conn, result |-> Panic]}
            ELSE { [conn |-> second.conn,
                    result |-> IF IsOk(second) THEN Ok(<<>>) ELSE second.ret.result]
                   : second \in UNION { Outcomes(first.conn,
                                          <<"clientupdate", calc_name_retry(name, time)>>)
                                        : time \in Timestamps } }
          : first \in Outcomes(c, <<"clientupdate", name>>) }

\* The length check with >= for >.
ConnectNameShorter(c, config) ==
    IF config.name.some
    THEN IF Len(config.name.val) >= MAX_LEN_NAME
         THEN {[conn |-> c,
                result |-> InvalidNameLength(Len(config.name.val), MAX_LEN_NAME)]}
         ELSE SetNameFallback(c, config.name.val)
    ELSE {[conn |-> c, result |-> Ok(<<>>)]}

\* The steps of ManagedConnection::connect after select_server_by_port.
ConnectName(c, config) ==
    IF config.name.some
    THEN IF Len(config.name.val) > MAX_LEN_NAME
         THEN {[conn |-> c,
                result |-> InvalidNameLength(Len(config.name.val), MAX_LEN_NAME)]}
         ELSE SetNameFallback(c, config.name.val)
    ELSE {[conn |-> c, result |-> Ok(<<>>)]}

\* One way connect went: whether a stream was opened, the QueryClient on it
\* (dropped unless the result is Ok) and the result.
Went(opened, c, result) ==
    [opened |-> opened, conn |-> IF result.kind = "Ok" THEN c ELSE Drop(c),
     result |-> result]

\* A connect that selects the server whatever login returned.
ConnectIgnoringLogin(config, s) ==
    UNION { UNION { IF ~IsOk(use)
                    THEN {Went(TRUE, use.conn, use.ret.result)}
                    ELSE {Went(TRUE, n.conn, n.result)
                          : n \in ConnectName(use.conn, config)}
                  : use \in Outcomes(login.conn, <<"use">>) }
          : login \in Outcomes(Stream(s), <<"login">>) }

\* ManagedConnection::connect, the new stream being s: the ways it can go.
\* The server accepts MaxConnects streams and refuses the ones after.
Connect(config, s) ==
    {[opened |-> FALSE, conn |-> Stream(s), result |-> Io("while connecting: ")]}
    \cup
    IF s > MaxConnects THEN {} ELSE
    UNION { IF ~IsOk(login)
            THEN {Went(TRUE, login.conn, login.ret.result)}
            ELSE UNION { IF ~IsOk(use)
                         THEN {Went(TRUE, use.conn, use.ret.result)}
                         ELSE {Went(TRUE, n.conn, n.result)
                               : n \in ConnectName(use.conn, config)}
                       : use \in Outcomes(login.conn, <<"use">>) }
          : login \in Outcomes(Stream(s), <<"login">>) }

\* Before ManagedConnection::new: a configuration, no connection yet.
InitManaged ==
    /\ ClientIdle /\ CodecIdle
    /\ live = FALSE /\ cfg \in Cfgs
    /\ last_ping = 0 /\ conn_id = None(0) /\ now = 0 /\ gen = 0
    /\ released = <<>> /\ mret = NothingDone
    /\ sid = 0 /\ sibling = NoSibling /\ calc = NoCalc /\ call = NoCall

\* The ManagedConnection of the variables as one value (with the streams
\* opened and dropped so far), and the variables set to such a value.
Self ==
    [cfg |-> cfg, conn |-> Own, last_ping |-> last_ping, conn_id |-> conn_id,
     gen |-> gen, released |-> released]
Install(m) ==
    /\ SetConn(m.conn) /\ sid' = m.conn.sid
    /\ last_ping' = m.last_ping /\ conn_id' = m.conn_id
    /\ gen' = m.gen /\ released' = m.released

\* What is kept of a connect that went as o.
Attempt(o) ==
    [opened |-> o.opened, sid |-> o.conn.sid, tx |-> o.conn.tx,
     log |-> o.conn.log, result |-> o.result]
Attempts(as) == [i \in 1..Len(as) |-> Attempt(as[i])]

\* The streams after a connect that went as o: one more if it opened one.
Opened(o) == IF o.opened THEN gen + 1 ELSE gen

\* ManagedConnection::new(config) at time t, the new stream being s: the ways
\* it can go, each with the connect made and the value returned on success.
ManagedNew(config, s, t) ==
    { [attempt |-> o,
       made |-> [cfg |-> config, conn |-> o.conn, last_ping |-> t,
                 conn_id |-> None(0)]]
      : o \in Connect(config, s) }

\* ManagedConnection::new(cfg)
New ==
    /\ ~live
    /\ \E n \in ManagedNew(cfg, gen + 1, now) :
          LET o == n.attempt
          IN /\ gen' = Opened(o)
             /\ mret' = Did("new", o.result, now, FALSE, Ok(<<>>), <<Attempt(o)>>, cfg)
             /\ IF o.result.kind = "Ok"
                THEN /\ SetConn(n.made.conn)
                     /\ sid' = n.made.conn.sid
                     /\ live' = TRUE
                     /\ last_ping' = n.made.last_ping
                     /\ conn_id' = n.made.conn_id
                     /\ UNCHANGED released
                ELSE /\ released' = IF o.opened THEN Append(released, Released(o.conn))
                                    ELSE released
                     /\ UNCHANGED <<rx, late, eof, tx, limit_lines, limit_lines_bytes,
                                    live, last_ping, conn_id, sid>>
    /\ UNCHANGED <<cfg, now, ret, clean, sibling, calc, call>>
    /\ CodecUnchanged

\* ManagedConfig::name(name), before the connection is made
CfgNames == {ShortName, FullName, LongName}
ConfigName(name) ==
    /\ ~live /\ mret.op = "none"
    /\ cfg' = [cfg EXCEPT !.name = Some(name)]
    /\ mret' = Did("name", Ok(<<>>), now, FALSE, Ok(<<>>), <<>>, cfg')
    /\ UNCHANGED <<live, last_ping, conn_id, now, gen, released, sid, sibling, calc, call>>
    /\ ClientUnchanged /\ CodecUnchanged

\* A force_reconnect that connects a second time when the first connect was
\* refused.
ReconnectTwice(config, s) ==
    { <<o>> : o \in {x \in Connect(config, s) : x.opened} }
    \cup { <<o1, o2>> : o1 \in {x \in Connect(config, s) : ~x.opened},
                        o2 \in Connect(config, s) }

\* The connects of one force_reconnect, in order: one.
ReconnectAttempts(config, s) == { <<o>> : o \in Connect(config, s) }

WasOpened(o) == o.opened
WasDropped(o) == o.opened /\ o.result.kind # "Ok"

\* A force_reconnect that keeps the cached client id.
force_reconnect_keeping_id(m, as) ==
    LET o == as[Len(as)]
    IN IF o.result.kind = "Ok"
       THEN [m EXCEPT !.conn = o.conn, !.gen = @ + 1,
                      !.released = Append(@, Released(Drop(m.conn)))]
       ELSE [m EXCEPT !.gen = IF o.opened THEN @ + 1 ELSE @,
                      !.released = IF o.opened THEN Append(@, Released(o.conn)) ELSE @]

\* A force_reconnect that drops the old connection before it connects.
force_reconnect_release_first(m, as) ==
    LET o == as[Len(as)]
        failed == SelectSeq(as, WasDropped)
        dropped == [i \in 1..Len(failed) |-> Released(failed[i].conn)]
        opened == Len(SelectSeq(as, WasOpened))
    IN IF o.result.kind = "Ok"
       THEN [m EXCEPT !.conn = o.conn, !.conn_id = None(0), !.gen = @ + opened,
                      !.released = @ \o <<Released(Drop(m.conn))>> \o dropped]
       ELSE [m EXCEPT !.conn = Drop(m.conn), !.gen = @ + opened,
                      !.released = @ \o <<Released(Drop(m.conn))>> \o dropped]

\* ManagedConnection::force_reconnect on m, its connects having gone as `as`.
force_reconnect(m, as) ==
    LET o == as[Len(as)]
        failed == SelectSeq(as, WasDropped)
        dropped == [i \in 1..Len(failed) |-> Released(failed[i].conn)]
        opened == Len(SelectSeq(as, WasOpened))
    IN IF o.result.kind = "Ok"
       THEN [m EXCEPT !.conn = o.conn, !.conn_id = None(0), !.gen = @ + opened,
                      !.released = @ \o dropped \o <<Released(Drop(m.conn))>>]
       ELSE [m EXCEPT !.gen = @ + opened, !.released = @ \o dropped]

\* ManagedConnection::force_reconnect()
ForceReconnect ==
    /\ live
    /\ \E as \in ReconnectAttempts(cfg, gen + 1) :
          /\ Install(force_reconnect(Self, as))
          /\ mret' = Did("force_reconnect", as[Len(as)].result, now, FALSE,
                         Ok(<<>>), Attempts(as), cfg)
    /\ UNCHANGED <<live, cfg, now, ret, clean, sibling, calc, call>>
    /\ CodecUnchanged

\* What a call of get() did and left: the ManagedConnection after it, the
\* result, whether the health check was sent, its result, and the connects.
Got(m, result, pinged, ping, connects) ==
    [m |-> m, result |-> result, pinged |-> pinged, ping |-> ping,
     connects |-> connects]

\* A get() that leaves last_ping as it was when it had to reconnect.
get_reconnect_stale(m, t) ==
    UNION {
      IF IsOk(ping)
      THEN {Got([m EXCEPT !.conn = ping.conn, !.last_ping = t],
                Ok(<<>>), TRUE, ping.ret.result, <<>>)}
      ELSE { Got(force_reconnect([m EXCEPT !.conn = ping.conn], as),
                 as[Len(as)].result, TRUE, ping.ret.result, Attempts(as))
             : as \in ReconnectAttempts(m.cfg, m.gen + 1) }
      : ping \in Outcomes(m.conn, <<"whoami">>) }

\* A get() that returns the connection held whatever its health check
\* returned.
get_keeps_failed(m, t) ==
    IF t - m.last_ping < CHECK_INTERVAL
    THEN {Got(m, Ok(<<>>), FALSE, Ok(<<>>), <<>>)}
    ELSE { Got([m EXCEPT !.conn = ping.conn, !.last_ping = t],
               Ok(<<>>), TRUE, ping.ret.result, <<>>)
           : ping \in Outcomes(m.conn, <<"whoami">>) }

\* ManagedConnection::get() on m at time t: the ways it can go.
get(m, t) ==
    IF t - m.last_ping < CHECK_INTERVAL
    THEN {Got(m, Ok(<<>>), FALSE, Ok(<<>>), <<>>)}
    ELSE UNION {
           IF IsOk(ping)
           THEN {Got([m EXCEPT !.conn = ping.conn, !.last_ping = t],
                     Ok(<<>>), TRUE, ping.ret.result, <<>>)}
           ELSE { LET r == force_reconnect([m EXCEPT !.conn = ping.conn], as)
                      res == as[Len(as)].result
                  IN Got(IF res.kind = "Ok" THEN [r EXCEPT !.last_ping = t] ELSE r,
                         res, TRUE, ping.ret.result, Attempts(as))
                  : as \in ReconnectAttempts(m.cfg, m.gen + 1) }
           : ping \in Outcomes(m.conn, <<"whoami">>) }

\* ManagedConnection::get()
Get ==
    /\ live /\ Len(tx) < MaxManagedTx
    /\ \E g \in get(Self, now) :
          /\ Install(g.m)
          /\ mret' = Did("get", g.result, now, g.pinged, g.ping, g.connects, cfg)
    /\ UNCHANGED <<live, cfg, now, ret, clean, sibling, calc, call>>
    /\ CodecUnchanged

\* Ok carrying the number v.
OkVal(v) == Result("Ok", <<>>, v, <<>>, "", <<>>)

\* QueryClient::whoami(false) on c, then int_val_parser for the client id:
\* the ways it can go, each the client afterwards and [ok, val, err].
WhoamiClientId(c) ==
    { [conn |-> w.conn,
       clid |-> IF IsOk(w)
                THEN int_val_parser("u16", parse_hashmap(w.ret.result.response, FALSE),
                                    KEY_CLIENT_ID_SELF)
                ELSE [ok |-> FALSE, val |-> 0, err |-> w.ret.result]]
      : w \in Outcomes(c, <<"whoami">>) }

\* ManagedConnection::conn_id()
ConnId ==
    /\ live /\ (conn_id.some \/ Len(tx) + 2 <= MaxIdentityTx)
    /\ IF conn_id.some
       THEN /\ mret' = Did("conn_id", OkVal(conn_id.val), now, FALSE, Ok(<<>>), <<>>, cfg)
            /\ UNCHANGED <<rx, late, eof, tx, limit_lines, limit_lines_bytes,
                           last_ping, conn_id, gen, released, sid>>
       ELSE \E g \in get(Self, now) :
               IF g.result.kind # "Ok"
               THEN /\ Install(g.m)
                    /\ mret' = Did("conn_id", g.result, now, g.pinged, g.ping,
                                   g.connects, cfg)
               ELSE \E w \in WhoamiClientId(g.m.conn) :
                       /\ Install([g.m EXCEPT !.conn = w.conn,
                                              !.conn_id = IF w.clid.ok
                                                          THEN Some(w.clid.val)
                                                          ELSE @])
                       /\ mret' = Did("conn_id",
                                      IF w.clid.ok THEN OkVal(w.clid.val) ELSE w.clid.err,
                                      now, g.pinged, g.ping, g.connects, cfg)
    /\ UNCHANGED <<live, cfg, now, ret, clean, sibling, calc, call>>
    /\ CodecUnchanged

\* The configuration clone(new_name) gives to Self::new: `cfg`, the copy
\* that takes the new name, is built and left unused; Self::new is called
\* with self.cfg.clone().
CloneConfig(config, new_name) ==
    LET c == IF new_name.some THEN [config EXCEPT !.name = new_name] ELSE config
    IN config

\* ManagedConnection::clone(new_name)
NewNames == {None(<<>>), Some(<<"a", "l", "t">>)}
Clone(new_name) ==
    /\ live
    /\ \E n \in ManagedNew(CloneConfig(cfg, new_name), gen + 1, now) :
          LET o == n.attempt
          IN /\ gen' = Opened(o)
             /\ mret' = Did("clone", o.result, now, FALSE, Ok(<<>>), <<Attempt(o)>>,
                            n.made.cfg)
             /\ sibling' = IF o.result.kind = "Ok"
                           THEN [some |-> TRUE, asked |-> new_name, cfg |-> n.made.cfg,
                                 last_ping |-> n.made.last_ping,
                                 conn_id |-> n.made.conn_id]
                           ELSE [NoSibling EXCEPT !.asked = new_name]
             /\ released' = IF WasDropped(o) THEN Append(released, Released(o.conn))
                            ELSE released
    /\ UNCHANGED <<live, cfg, last_ping, conn_id, now, sid, calc, call>>
    /\ ClientUnchanged /\ CodecUnchanged

\* Time passes.
Tick ==
    /\ now + TickMs <= MaxTime
    /\ now' = now + TickMs
    /\ UNCHANGED <<live, cfg, last_ping, conn_id, gen, released, mret, sid, sibling, calc, call>>
    /\ ClientUnchanged /\ CodecUnchanged

NextManaged ==
    \/ New
    \/ \E name \in CfgNames : ConfigName(name)
    \/ ForceReconnect
    \/ Get
    \/ Tick
    \/ ServerDeliver

SpecManaged == InitManaged /\ [][NextManaged]_vars

\* The cached client id: a connection without or with a display name,
\* get(), conn_id() and the reconnects.
InitIdentity == InitManaged /\ cfg \in {NoCfg, [name |-> Some(ShortName)]}

NextIdentity ==
    \/ New
    \/ ForceReconnect
    \/ Get
    \/ ConnId
    \/ Tick
    \/ ServerDeliver

SpecIdentity == InitIdentity /\ [][NextIdentity]_vars

\* A connection and its clones.
NextClone ==
    \/ New
    \/ \E name \in CfgNames : ConfigName(name)
    \/ \E new_name \in NewNames : Clone(new_name)

SpecClone == InitManaged /\ [][NextClone]_vars

----------------------------------------------------------------------------
(* calc_name_retry applied to bounded inputs *)

\* Names have up to MaxNameLen bytes, timestamps up to MaxTimeLen digits.
MaxNameLen == 22
MaxTimeLen == 21

\* k bytes of letters, the i-th after `from` letters being the (from+i)-th of
\* a..j repeated, and k digits, the i-th being i modulo 10.
Letters(from, k) ==
    [i \in 1..k |-> <<"a", "b", "c", "d", "e", "f", "g", "h", "i", "j">>[((from + i - 1) % 10) + 1]]
Stamp(k) ==
    [i \in 1..k |-> <<"0", "1", "2", "3", "4", "5", "6", "7", "8", "9">>[(i % 10) + 1]]

\* The names: letters only, and letters around one two-byte character.
AsciiNames == { Letters(0, k) : k \in 0..MaxNameLen }
WideNames ==
    { Letters(0, k) \o <<LeadByte, ContByte>> \o Letters(k + 2, j)
      : k \in 0..(MaxNameLen - 2), j \in {0, 7, 8, 9, 10} }
Names == AsciiNames \cup {n \in WideNames : Len(n) <= MaxNameLen}
Times == { Stamp(k) : k \in 1..MaxTimeLen }

InitName ==
    /\ ClientIdle /\ CodecIdle
    /\ live = FALSE /\ cfg = NoCfg
    /\ last_ping = 0 /\ conn_id = None(0) /\ now = 0 /\ gen = 0
    /\ released = <<>> /\ mret = NothingDone
    /\ sid = 0 /\ sibling = NoSibling /\ call = NoCall
    /\ calc \in [pc : {"input"}, name : Names, time : Times, out : {<<>>}]

\* ManagedConnection::calc_name_retry(calc.name), the clock reading calc.time
CalcNameRetry ==
    /\ calc.pc = "input"
    /\ calc' = IF CalcNamePanics(calc.name)
               THEN [calc EXCEPT !.pc = "panic"]
               ELSE [calc EXCEPT !.pc = "done",
                                 !.out = calc_name_retry(calc.name, calc.time)]
    /\ UNCHANGED <<live, cfg, last_ping, conn_id, now, gen, released, mret,
                   sid, sibling, call>>
    /\ ClientUnchanged /\ CodecUnchanged

NextName == CalcNameRetry

SpecName == InitName /\ [][NextName]_vars

----------------------------------------------------------------------------
(* The codec applied to bounded inputs *)

\* The escaped bytes, their markers, an unescaped control byte and plain ones.
CodecBytes ==
    {BSL, "/", " ", "|", "BEL", "BS", "FF", LF, CR, "TAB", "VT",
     "s", "p", "n", "x", NUL}

InitCodec ==
    /\ ClientIdle /\ ManagedIdle
    /\ c_in \in SeqsUpTo(CodecBytes, MaxStr)
    /\ c_esc = <<>>
    /\ c_out = <<>>
    /\ c_pc = "input"

\* escape_arg(c_in)
DoEscape ==
    /\ c_pc = "input"
    /\ c_esc' = escape_arg(c_in)
    /\ c_pc' = "escaped"
    /\ UNCHANGED <<c_in, c_out>>
    /\ ClientUnchanged /\ ManagedUnchanged

\* unescape_val of what escape_arg returned
DoUnescape ==
    /\ c_pc = "escaped"
    /\ c_out' = unescape_val(c_esc)
    /\ c_pc' = "roundtrip"
    /\ UNCHANGED <<c_in, c_esc>>
    /\ ClientUnchanged /\ ManagedUnchanged

\* unescape_val(c_in): the input taken as text received from the server
DoUnescapeRaw ==
    /\ c_pc = "input"
    /\ c_out' = unescape_val(c_in)
    /\ c_pc' = "unescaped"
    /\ UNCHANGED <<c_in, c_esc>>
    /\ ClientUnchanged /\ ManagedUnchanged

NextCodec == DoEscape \/ DoUnescape \/ DoUnescapeRaw

SpecCodec == InitCodec /\ [][NextCodec]_vars

----------------------------------------------------------------------------
(* lib.rs: the command operations that take a string of the caller *)

\* Longest string a caller passes to a command operation.
MaxArg == 2

\* The arguments of one call: the operation, its ClientId and ChannelId, the
\* `server` flag of kick_client, the MessageTarget of send_message, whether
\* the Option argument is Some (target of update_description, password of
\* move_client, message of kick_client), and the caller's strings s and t
\* (t is the password of login).
Args(op, client, channel, server, target, some, s, t) ==
    [op |-> op, client |-> client, channel |-> channel, server |-> server,
     target |-> target, some |-> some, s |-> s, t |-> t]

\* Display for MessageTarget
MessageTargetFmt(target, id) ==
    CASE target = "Client"  -> <<"targetmode=1", " ", "target=">> \o to_string(id)
      [] target = "Channel" -> <<"targetmode=2">>
      [] OTHER              -> <<"targetmode=3">>

\* The bytes the writeln! of a command operation writes for the call a.  A
\* keyword of the format string is one element; the spaces of the format
\* string, the numbers and the strings are bytes.
CommandLine(a) ==
    (CASE a.op = "rename" ->
            <<"clientupdate", " ", "client_nickname=">> \o escape_arg(a.s)
       [] a.op = "update_description" ->
            IF a.some
            THEN <<"clientedit", " ", "clid=">> \o to_string(a.client)
                 \o <<" ", "CLIENT_DESCRIPTION=">> \o escape_arg(a.s)
            ELSE <<"clientupdate", " ", "CLIENT_DESCRIPTION=">> \o escape_arg(a.s)
       [] a.op = "poke_client" ->
            <<"clientpoke", " ", "clid=">> \o to_string(a.client)
            \o <<" ", "msg=">> \o a.s
       [] a.op = "send_message" ->
            <<"sendtextmessage", " ">> \o MessageTargetFmt(a.target, a.client)
            \o <<" ", "msg=">> \o escape_arg(a.s)
       [] a.op = "login" ->
            <<"login", " ">> \o escape_arg(a.s) \o <<" ">> \o escape_arg(a.t)
       [] a.op = "move_client" ->
            <<"clientmove", " ", "clid=">> \o to_string(a.client)
            \o <<" ", "cid=">> \o to_string(a.channel) \o <<" ">>
            \o (IF a.some THEN <<"cpw=">> \o escape_arg(a.s) ELSE <<>>)
       [] a.op = "kick_client" ->
            <<"clientkick", " ", "clid=">> \o to_string(a.client)
            \o <<" ", "reasonid=">> \o to_string(IF a.server THEN 5 ELSE 4) \o <<" ">>
            \o (IF a.some THEN <<"reasonmsg=">> \o escape_arg(a.s) ELSE <<>>)
       [] a.op = "create_dir" ->
            <<"ftcreatedir", " ", "cid=">> \o to_string(a.channel)
            \o <<" ", "cpw=", " ", "dirname=">> \o escape_arg(a.s)
       [] OTHER ->  \* delete_file
            <<"ftdeletefile", " ", "cid=">> \o to_string(a.channel)
            \o <<" ", "cpw=", " ", "name=">> \o escape_arg(a.s))
    \o <<LF>>

\* The strings callers pass: plain bytes, the separators of the protocol
\* and the backslash.
ArgStrings == SeqsUpTo({"a", " ", "|", LF, CR, BSL}, MaxArg)

\* The calls made: every operation with every string, the operations with
\* an Option argument also without it.
Calls ==
    LET with(op, target, some, ts) ==
            {Args(op, 7, 12, FALSE, target, some, s, t) : s \in ArgStrings, t \in ts}
    IN with("rename", "Server", TRUE, {<<>>})
       \cup with("update_description", "Server", TRUE, {<<>>})
       \cup with("update_description", "Server", FALSE, {<<>>})
       \cup with("poke_client", "Server", TRUE, {<<>>})
       \cup with("send_message", "Client", TRUE, {<<>>})
       \cup with("send_message", "Channel", TRUE, {<<>>})
       \cup with("send_message", "Server", TRUE, {<<>>})
       \cup with("login", "Server", TRUE, {<<>>, <<" ">>, <<LF, "a">>})
       \cup with("move_client", "Server", TRUE, {<<>>})
       \cup {Args("move_client", 7, 12, FALSE, "Server", FALSE, <<>>, <<>>)}
       \cup with("kick_client", "Server", TRUE, {<<>>})
       \cup {Args("kick_client", 7, 12, srv, "Server", FALSE, <<>>, <<>>) : srv \in BOOLEAN}
       \cup with("create_dir", "Server", TRUE, {<<>>})
       \cup with("delete_file", "Server", TRUE, {<<>>})

\* One command operation called as a says, answered by resp in the given mode.
CommandOp(a, resp, mode) ==
    LET r == Command(Conn, CommandLine(a), resp, mode)
    IN /\ call.pc = "idle"
       /\ SetConn(r.conn)
       /\ ret' = r.ret
       /\ clean' = (clean /\ ReadStatus(r.ret.result))
       /\ call' = [pc |-> "called", a |-> a]
       /\ CodecUnchanged
       /\ UNCHANGED <<live, cfg, last_ping, conn_id, now, gen, released, mret,
                      sid, sibling, calc>>

NextWire == \E a \in Calls, resp \in MResponses, mode \in Modes : CommandOp(a, resp, mode)

SpecWire == Init /\ [][NextWire]_vars

----------------------------------------------------------------------------
(* lib.rs: the operations on the clients of a server group *)

\* Most ids in a list, and most calls on one client.
MaxIds == 3
MaxGroupCalls == 2

\* A rendering that puts the separator before every item, the first too.
RECURSIVE format_cldbids_all_piped(_)
format_cldbids_all_piped(it) ==
    IF it = <<>> THEN <<>>
    ELSE format_cldbids_all_piped(Front(it)) \o <<"|", "cldbid=">> \o to_string(Last(it))

\* The `for n in it` loop of format_cldbids on what is left of the iterator.
RECURSIVE format_cldbids_rest(_)
format_cldbids_rest(it) ==
    IF it = <<>> THEN <<>>
    ELSE <<"|", "cldbid=">> \o to_string(Head(it)) \o format_cldbids_rest(Tail(it))

\* QueryClient::format_cldbids(it)
format_cldbids(it) ==
    IF it = <<>> THEN <<>>
    ELSE <<"cldbid=">> \o to_string(Head(it)) \o format_cldbids_rest(Tail(it))

\* The line server_group_del_clients ("servergroupdelclient") and
\* server_group_add_clients ("servergroupaddclient") write.
GroupLine(keyword, group, cldbid) ==
    <<keyword, " ", "sgid=">> \o to_string(group) \o <<" ">>
    \o format_cldbids(cldbid) \o <<LF>>

\* The groups and the lists of ids of the calls: the first ids of 0, 12, 7,
\* 345 repeated.
Groups == {5, 23}
IdLists ==
    { [i \in 1..k |-> <<0, 12, 7, 345>>[((i - 1) % 4) + 1]] : k \in 0..MaxIds }

\* One of the two operations called on the client of the variables: nothing
\* is done for an empty list.
server_group_clients(keyword, group, cldbid, resp, mode) ==
    IF cldbid = <<>>
    THEN [conn |-> Conn, ret |-> Returned(Conn, Ok(<<>>), <<>>, rx, eof)]
    ELSE Command(Conn, GroupLine(keyword, group, cldbid), resp, mode)

\* The call is entered in call.log with what it wrote and returned.
GroupCalled(op, group, cldbid, r) ==
    /\ call.pc \in {"idle", "group"}
    /\ call.pc = "group" => Len(call.log) < MaxGroupCalls
    /\ SetConn(r.conn)
    /\ ret' = r.ret
    /\ clean' = (clean /\ ReadStatus(r.ret.result))
    /\ call' = [pc |-> "group",
                log |-> Append(IF call.pc = "idle" THEN <<>> ELSE call.log,
                               [op |-> op, group |-> group, cldbid |-> cldbid,
                                closed |-> eof,
                                wrote |-> DropFirst(r.conn.tx, Len(tx)),
                                reads |-> r.ret.reads,
                                left |-> r.conn.rx = rx /\ r.conn.late = late,
                                result |-> r.ret.result])]
    /\ CodecUnchanged
    /\ UNCHANGED <<live, cfg, last_ping, conn_id, now, gen, released, mret,
                   sid, sibling, calc>>

\* QueryClient::server_group_del_clients(group, cldbid)
ServerGroupDelClients(group, cldbid, resp, mode) ==
    /\ cldbid # <<>> => ~eof
    /\ GroupCalled("server_group_del_clients", group, cldbid,
                   server_group_clients("servergroupdelclient", group, cldbid, resp, mode))

\* QueryClient::server_group_add_clients(group, cldbid)
ServerGroupAddClients(group, cldbid, resp, mode) ==
    /\ cldbid # <<>> => ~eof
    /\ GroupCalled("server_group_add_clients", group, cldbid,
                   server_group_clients("servergroupaddclient", group, cldbid, resp, mode))

\* format_cldbids(it) alone
FormatCldbids(it) ==
    /\ call.pc = "idle"
    /\ call' = [pc |-> "format_cldbids", it |-> it, out |-> format_cldbids(it)]
    /\ ClientUnchanged /\ CodecUnchanged
    /\ UNCHANGED <<live, cfg, last_ping, conn_id, now, gen, released, mret,
                   sid, sibling, calc>>

NextGroup ==
    \/ \E group \in Groups, cldbid \in IdLists, resp \in MResponses, mode \in Modes :
          ServerGroupDelClients(group, cldbid, resp, mode)
    \/ \E group \in Groups, cldbid \in IdLists, resp \in MResponses, mode \in Modes :
          ServerGroupAddClients(group, cldbid, resp, mode)
    \/ \E it \in IdLists : FormatCldbids(it)

SpecGroup == Init /\ [][NextGroup]_vars

----------------------------------------------------------------------------
(* The parsers of raw.rs applied to bounded inputs *)

\* Most lines of one response given to a parser.
MaxLines == 2

\* Entries of a line: a flag, keys with an empty, a plain, an escaped and a
\* second value, a value with '=' in it and one ending in '=', an escaped
\* key, an empty key, and a value with U+00A0 in it.
Entries ==
    { <<"a">>, <<"a", "=">>, <<"a", "=", "1">>, <<"a", "=", "2">>,
      <<"b", "=", "x", BSL, "s", "y">>, <<"b", "=", "1", "=", "2">>,
      <<"c", "=", "Y", "Q", "=", "=">>, <<BSL, "s", "=", "1">>, <<"=", "1">>,
      <<"n", "=", "x">> \o NBSP \o <<"y">> }

\* What stands between, before and after the entries of a line.
Gaps == { <<" ">>, <<"TAB", " ">>, <<"|">>, <<" ", "|">> }
Margins == { <<>>, <<" ">>, <<"|">> }

\* Lines of no, one and two entries; the lines of a response of two lines.
InputLines ==
    {<<>>} \cup {m \o e \o n : m \in Margins, e \in Entries, n \in Margins}
           \cup {e \o g \o f : e \in Entries, g \in Gaps, f \in Entries}
PairLines ==
    { <<>>, <<"a">>, <<"a", "=", "1">>, <<"a", "=", "2", " ", "b">>,
      <<"b", "=", "1", "|", "a", "=", "3">>, <<"a", "=", BSL, "p", "|">> }
Inputs ==
    {<<>>} \cup {<<l>> : l \in InputLines} \cup [1..MaxLines -> PairLines]

InitParse ==
    /\ ClientIdle /\ CodecIdle
    /\ live = FALSE /\ cfg = NoCfg
    /\ last_ping = 0 /\ conn_id = None(0) /\ now = 0 /\ gen = 0
    /\ released = <<>> /\ mret = NothingDone
    /\ sid = 0 /\ sibling = NoSibling /\ calc = NoCalc
    /\ call \in [pc : {"input"}, input : Inputs, unescape : BOOLEAN]

ParseUnchanged ==
    /\ ClientUnchanged /\ CodecUnchanged
    /\ UNCHANGED <<live, cfg, last_ping, conn_id, now, gen, released, mret,
                   sid, sibling, calc>>

\* parse_hashmap(call.input, call.unescape)
ParseHashmap ==
    /\ call.pc = "input"
    /\ call' = [pc |-> "parse_hashmap", input |-> call.input,
                unescape |-> call.unescape,
                out |-> parse_hashmap(call.input, call.unescape)]
    /\ ParseUnchanged

\* parse_multi_hashmap(call.input, call.unescape)
ParseMultiHashmap ==
    /\ call.pc = "input"
    /\ call' = [pc |-> "parse_multi_hashmap", input |-> call.input,
                unescape |-> call.unescape,
                out |-> parse_multi_hashmap(call.input, call.unescape)]
    /\ ParseUnchanged

NextParse == ParseHashmap \/ ParseMultiHashmap

SpecParse == InitParse /\ [][NextParse]_vars

----------------------------------------------------------------------------
(* The helpers of raw.rs applied to bounded records *)

\* Most values taken out of one record.
MaxExtracts == 2

\* The keys asked for, and the records: the first key absent, a flag, or
\* with a number, a signed number, a list, a list with a bad piece, an empty
\* value, a word, an escaped value; the second absent, a flag or a number.
Keys == { <<"k">>, <<"l">> }
Records ==
    LET ks == { None(<<>>), Some(<<"1", "2">>), Some(<<"0">>), Some(<<"-", "3">>),
                Some(<<"1", ",", "2">>), Some(<<"1", ",", "x", ",", "y">>),
                Some(<<>>), Some(<<"x">>), Some(<<"4", BSL, "s">>) }
        ls == { None(<<>>), Some(<<"7">>) }
        k == <<"k">>
        l == <<"l">>
    IN {EmptyMap} \cup {MapInsert(EmptyMap, k, v) : v \in ks}
                  \cup {MapInsert(EmptyMap, l, w) : w \in ls}
                  \cup {MapInsert(MapInsert(EmptyMap, k, v), l, w) : v \in ks, w \in ls}

\* The helpers, those generic in T with the types they are called for.
Helpers ==
    ({"int_val_parser", "int_val_parser_opt", "int_list_val_parser"} \X {"u16", "i32"})
    \cup ({"bool_val_parser", "string_val_parser", "string_val_parser_opt"} \X {"-"})

InitExtract ==
    /\ ClientIdle /\ CodecIdle
    /\ live = FALSE /\ cfg = NoCfg
    /\ last_ping = 0 /\ conn_id = None(0) /\ now = 0 /\ gen = 0
    /\ released = <<>> /\ mret = NothingDone
    /\ sid = 0 /\ sibling = NoSibling /\ calc = NoCalc
    /\ call \in [pc : {"record"}, data : Records, log : {<<>>}]

\* One helper called for key on the record call.data; the call is entered
\* in call.log with the record before and after it.
Extract(h, key) ==
    LET T == h[2]
        r == CASE h[1] = "int_val_parser"        -> int_val_parser(T, call.data, key)
               [] h[1] = "int_val_parser_opt"    -> int_val_parser_opt(T, call.data, key)
               [] h[1] = "int_list_val_parser"   -> int_list_val_parser(T, call.data, key)
               [] h[1] = "bool_val_parser"       -> bool_val_parser(call.data, key)
               [] h[1] = "string_val_parser"     -> string_val_parser(call.data, key)
               [] OTHER                          -> string_val_parser_opt(call.data, key)
    IN /\ call.pc = "record"
       /\ Len(call.log) < MaxExtracts
       /\ call' = [pc |-> "record", data |-> r.data,
                   log |-> Append(call.log,
                                  [helper |-> h[1], T |-> T, key |-> key,
                                   before |-> call.data, after |-> r.data,
                                   ok |-> r.ok, val |-> r.val, err |-> r.err])]
       /\ ParseUnchanged

NextExtract == \E h \in Helpers, key \in Keys : Extract(h, key)

SpecExtract == InitExtract /\ [][NextExtract]_vars

----------------------------------------------------------------------------
(* lib.rs: the handshake of QueryClient::with_timeout *)

\* The banner a server sends: nothing, one line, or two lines.
BannerType == <<"T", "S", "3", LF, CR>>
BannerWelcome == <<"W", LF, CR>>
Banners == {<<>>, BannerType, BannerType \o BannerWelcome}

\* A new stream: the bytes that arrive before the first read returns
\* (first), those that arrive after it and before the second read returns
\* (second), and those that arrive later (late); whether the server closes
\* the stream after them; the read that fails with ConnectionReset (0:
\* none); and the kind of error a read timeout has on the platform.
NewStreams ==
    UNION { UNION { { [first |-> SubSeq(b, 1, i), second |-> SubSeq(b, i + 1, j),
                       late |-> SubSeq(b, j + 1, Len(b)), closed |-> closed,
                       reset |-> reset, timeout |-> kind]
                      : j \in i..Len(b), closed \in BOOLEAN, reset \in 0..2,
                        kind \in {"TimedOut", "WouldBlock"} }
                    : i \in 0..Len(b) }
            : b \in Banners }

\* A server that closes the stream sends nothing later.
IsNewStream(s) == s.closed => s.late = <<>>

\* reader.read_until(b'\r', &mut buffer) on the BufReader of a new stream
\* that holds avail: Ok(n) through the first CR, or to the end of a stream
\* the server closed; an error when the read fails (reset) or times out
\* with no CR received.  The bytes received are taken in every case.
banner_read(avail, ends, reset, timeout) ==
    LET k == IndexOf(avail, CR)
    IN IF reset THEN [kind |-> "ConnectionReset", n |-> 0, rest |-> avail]
       ELSE IF k # 0 THEN [kind |-> "Ok", n |-> k, rest |-> DropFirst(avail, k)]
       ELSE IF ends THEN [kind |-> "Ok", n |-> Len(avail), rest |-> <<>>]
       ELSE [kind |-> timeout, n |-> Len(avail), rest |-> <<>>]

\* What new_inner returns: the result, the two reads, and the bytes the
\* reader holds.
Handshake(result, reads, rx_left) == [result |-> result, reads |-> reads, rx |-> rx_left]

\* A handshake that takes a timeout of the second read as an error too.
new_inner_strict(s) ==
    LET r1 == banner_read(s.first, s.closed /\ s.second = <<>> /\ s.late = <<>>,
                          s.reset = 1, s.timeout)
        r2 == banner_read(r1.rest \o s.second, s.closed /\ s.late = <<>>,
                          s.reset = 2, s.timeout)
    IN IF r1.kind # "Ok" THEN Handshake(Io("reading response: "), <<r1>>, r1.rest)
       ELSE IF r2.kind # "Ok" THEN Handshake(Io(""), <<r1, r2>>, r2.rest)
       ELSE Handshake(Ok(<<>>), <<r1, r2>>, r2.rest)

\* QueryClient::new_inner on the stream s, from the first read_until on.
new_inner(s) ==
    LET r1 == banner_read(s.first, s.closed /\ s.second = <<>> /\ s.late = <<>>,
                          s.reset = 1, s.timeout)
        r2 == banner_read(r1.rest \o s.second, s.closed /\ s.late = <<>>,
                          s.reset = 2, s.timeout)
    IN IF r1.kind # "Ok" THEN Handshake(Io("reading response: "), <<r1>>, r1.rest)
       ELSE IF r2.kind \in {"TimedOut", "WouldBlock"}
       THEN Handshake(Ok(<<>>), <<r1, r2>>, r2.rest)
       ELSE IF r2.kind # "Ok" THEN Handshake(Io(""), <<r1, r2>>, r2.rest)
       ELSE Handshake(Ok(<<>>), <<r1, r2>>, r2.rest)

\* Before QueryClient::with_timeout: a stream to connect to, no client yet.
InitHandshake ==
    /\ ClientIdle /\ CodecIdle
    /\ live = FALSE /\ cfg = NoCfg
    /\ last_ping = 0 /\ conn_id = None(0) /\ now = 0 /\ gen = 0
    /\ released = <<>> /\ mret = NothingDone
    /\ sid = 0 /\ sibling = NoSibling /\ calc = NoCalc
    /\ call \in {[pc |-> "stream", s |-> s] : s \in {x \in NewStreams : IsNewStream(x)}}

\* QueryClient::with_timeout(addr, t_connect, Some(timeout)): the client of
\* the variables is made when new_inner returns Ok.
WithTimeout ==
    LET h == new_inner(call.s)
    IN /\ call.pc = "stream"
       /\ call' = [pc |-> IF h.result.kind = "Ok" THEN "ready" ELSE "failed",
                   s |-> call.s, reads |-> h.reads, result |-> h.result]
       /\ IF h.result.kind = "Ok"
          THEN /\ rx' = h.rx /\ late' = call.s.late /\ eof' = call.s.closed
               /\ tx' = <<>>
               /\ limit_lines' = LIMIT_READ_LINES
               /\ limit_lines_bytes' = LIMIT_LINE_BYTES
          ELSE UNCHANGED <<rx, late, eof, tx, limit_lines, limit_lines_bytes>>
       /\ UNCHANGED <<ret, clean>>
       /\ CodecUnchanged
       /\ UNCHANGED <<live, cfg, last_ping, conn_id, now, gen, released, mret,
                      sid, sibling, calc>>

\* The first command on the client made, its response arriving in full.
FirstCommand(resp) ==
    LET r == Command(Conn, <<"raw">>, resp, "all")
    IN /\ call.pc = "ready" /\ tx = <<>> /\ ~eof
       /\ SetConn(r.conn)
       /\ ret' = r.ret
       /\ clean' = (clean /\ ReadStatus(r.ret.result))
       /\ CodecUnchanged /\ ManagedUnchanged

NextHandshake ==
    \/ WithTimeout
    \/ \E resp \in MResponses : FirstCommand(resp)

SpecHandshake == InitHandshake /\ [][NextHandshake]_vars

----------------------------------------------------------------------------
(* What a stream holds, read off the stream itself *)

\* The terminated lines of a stream, in order, each without its CR and
\* without the LF before it; the bytes after the last CR belong to no line.
LinesOf(stream) ==
    LET pieces == Split(stream, CR)
        strip(l) == IF EndsWith(l, LF) THEN SubSeq(l, 1, Len(l) - 1) ELSE l
    IN [i \in 1..(Len(pieces) - 1) |-> strip(pieces[i])]

IsStatus(line) == StartsWith(line, StatusPrefix)
IsData(line) == ~IsStatus(line) /\ ValidUtf8(line)
NonEmpty(lines) == SelectSeq(lines, LAMBDA l : l # <<>>)

\* The index of the first status line among lines, 0 when there is none.
FirstStatus(lines) ==
    IF \E i \in 1..Len(lines) : IsStatus(lines[i])
    THEN CHOOSE i \in 1..Len(lines) :
            IsStatus(lines[i]) /\ \A j \in 1..(i - 1) : ~IsStatus(lines[j])
    ELSE 0

\* The tokens of a status line after "error", and the text of a token
\* after its key.
Tokens(line) == Tail(Split(line, " "))
IdKey == <<"i", "d", "=">>
MsgKey == <<"m", "s", "g", "=">>
IsUint(t) == t # <<>> /\ \A i \in 1..Len(t) : t[i] \in Digits
\* The line is `error id=<uint> msg=<text>`, other tokens may follow.
WellFormed(line) ==
    /\ Len(Tokens(line)) >= 2
    /\ StartsWith(Tokens(line)[1], IdKey)
    /\ IsUint(DropFirst(Tokens(line)[1], Len(IdKey)))
    /\ StartsWith(Tokens(line)[2], MsgKey)
IdOf(line) == DecVal(DropFirst(Tokens(line)[1], Len(IdKey)))
MsgOf(line) == DropFirst(Tokens(line)[2], Len(MsgKey))

\* The last command's read_response came to the status line of the stream.
Called == tx # <<>> /\ ret.reads # <<>>
SeenLines == LinesOf(ret.seen)
SeenStatus == SeenLines[FirstStatus(SeenLines)]
CameToStatus == Called /\ ReadStatus(ret.result)

----------------------------------------------------------------------------
(* Claims *)

\* C1: on one QueryClient, whatever the earlier operations returned, a
\* command line is written only when the response to every command written
\* before has been read through its status line (no byte of it is unread
\* or still to arrive).
C1_NoInterleave == [][Len(tx') > Len(tx) => (rx = <<>> /\ late = <<>>)]_vars

\* C1 as amended: the same, for a client on which every operation so far
\* read its response through a status line.
C1_NoInterleaveWhileClean ==
    [][(Len(tx') > Len(tx) /\ clean) => (rx = <<>> /\ late = <<>>)]_vars

\* A second command was written after a first one that ended in a server error.
C1_Witness ==
    /\ Len(tx) = 2 /\ clean
    /\ ret.result.kind = "ServerError"
    /\ Len(ret.reads) = 3

\* C2: for every string s over the bounded alphabet,
\* unescape_val(escape_arg(s)) equals s.
C2_RoundTrip == c_pc = "roundtrip" => c_out = c_in

\* A round trip of a string that holds an escaped byte and a marker letter.
C2_Witness ==
    /\ c_pc = "roundtrip"
    /\ Len(c_in) = MaxStr
    /\ \E i \in 1..Len(c_in) : EscapeMarker(c_in[i]) # NUL
    /\ \E i \in 1..Len(c_in) : c_in[i] \in {"s", "p", "n"}
    /\ Len(c_esc) > Len(c_in)


\* C3: when read_response succeeds it returns exactly the non-empty lines
\* before the first line that begins with "error ", in stream order and
\* without terminators; no status line is among them.
C3_DataLines ==
    (Called /\ ret.result.kind = "Ok") =>
        /\ FirstStatus(SeenLines) # 0
        /\ ret.result.response =
              NonEmpty(SubSeq(SeenLines, 1, FirstStatus(SeenLines) - 1))
        /\ \A i \in 1..Len(ret.result.response) : ~IsStatus(ret.result.response[i])

\* Success after a blank line, a field ended by LF CR and a line that only
\* resembles a status line.
C3_Witness ==
    /\ Called /\ ret.result.kind = "Ok"
    /\ ret.seen = Blank \o Field \o NoStatus \o StatusOk
    /\ Len(ret.result.response) = 2

\* C4: a status line `error id=<n> msg=<text>` with n # 0 makes the
\* operation fail with ServerError{id: n, msg: the unescaped whole text
\* after "msg=" up to the next space}, known code or not, and no data line
\* is returned.
C4_ServerError ==
    (CameToStatus /\ WellFormed(SeenStatus) /\ IdOf(SeenStatus) # 0) =>
        ret.result = ServerError(IdOf(SeenStatus), unescape_val(MsgOf(SeenStatus)))

\* C5: an ErrorResponse has id # 0: a status line with id 0 yields Ok and
\* never ServerError, and every ServerError carries a non-zero id.
C5_NonZeroId ==
    /\ ret.result.kind = "ServerError" => ret.result.id # 0
    /\ (CameToStatus /\ WellFormed(SeenStatus) /\ IdOf(SeenStatus) = 0) =>
            ret.result.kind = "Ok"

\* The status lines `error id=0 ...` and `error id=00 ...` were answered.
C5_Witness ==
    /\ CameToStatus /\ WellFormed(SeenStatus) /\ IdOf(SeenStatus) = 0
    /\ Len(Tokens(SeenStatus)[1]) = 5
    /\ ret.result.kind = "Ok"

\* C6: read_response reads at most limit_lines lines (blank ones count);
\* when the first limit_lines lines of the stream are data lines it fails
\* with ResponseLimit carrying exactly the non-empty ones, in order.
C6_LineLimit ==
    /\ Len(ret.reads) <= ret.lines
    /\ ( /\ tx # <<>>
         /\ Len(SeenLines) >= ret.lines
         /\ \A i \in 1..ret.lines : IsData(SeenLines[i])
         /\ ret.lines >= 1 => IndexOf(ret.seen, CR) <= ret.max_bytes )
       => ret.result = ResponseLimit(NonEmpty(SubSeq(SeenLines, 1, ret.lines)))

\* The limit of two lines was used up by a blank line and one field.
C6_Witness ==
    /\ Called /\ ret.lines = 2
    /\ SubSeq(ret.seen, 1, Len(Blank \o Field \o Field)) = Blank \o Field \o Field
    /\ ret.result.kind = "ResponseLimit"
    /\ Len(ret.result.response) = 1
    /\ Len(ret.reads) = 2

\* C7: when a line's bytes use up the per-line byte budget before its CR,
\* read_response fails with ResponseLimit carrying the complete lines read
\* before (here: the first line, so none), never Ok and never the fragment.
C7_LineTooLong ==
    ( /\ tx # <<>> /\ ret.lines >= 1
      /\ Len(ret.seen) >= ret.max_bytes
      /\ IndexOf(SubSeq(ret.seen, 1, ret.max_bytes), CR) = 0 )
    => ret.result = ResponseLimit(<<>>)

\* C8: no read of a line takes more than limit_lines_bytes bytes from the
\* stream, the first line and all later ones alike.
C8_EveryLineBudget ==
    \A i \in 1..Len(ret.reads) : ret.reads[i].taken <= ret.max_bytes

\* C9: a status line is decoded as success or ServerError only if its
\* tokens after "error" are id=<uint> and msg=<text>, in that order; any
\* other is reported as InvalidResponse.
C9_Malformed ==
    (CameToStatus /\ ~WellFormed(SeenStatus)) => ret.result.kind = "InvalidResponse"

\* C10: get() sends the health check only when more than the documented
\* interval (1 second) has passed since the last check; a get() within the
\* interval writes nothing and opens no stream.
C10_PingAfterInterval ==
    [][(mret'.op = "get" /\ now - last_ping <= DOC_INTERVAL)
         => (tx' = tx /\ gen' = gen)]_vars

\* The commands of a connect, as kept in mret: the i-th went well, the
\* rename commands among them, and the streams dropped so far.
IsRename(e) == Len(e.command) = 2 /\ e.command[1] = "clientupdate"
Renames(a) == SelectSeq(a.log, IsRename)
WentWell(a, i) == Len(a.log) >= i /\ a.log[i].result.kind = "Ok"
Failed(e) == e.result.kind # "Ok"
NameTaken(e) == e.result.kind = "ServerError" /\ e.result.id = ERR_NAME_TAKEN
Dropped == {released[i].sid : i \in 1..Len(released)}
PingFailed == mret.pinged /\ mret.ping.kind # "Ok"
TooLong(config) == config.name.some /\ Len(config.name.val) > MAX_LEN_NAME

\* C11: when the health check of get() fails, get() makes one reconnect;
\* if it succeeds, it opened a new stream and sent login, the server
\* selection and (with a name configured) the rename on it, the connection
\* held is the one on that stream, the cached client id is empty and
\* last_ping is the time of the call.
C11_ReconnectOnFailedCheck ==
    (mret.op = "get" /\ PingFailed) =>
        /\ Len(mret.connects) = 1
        /\ mret.result = mret.connects[1].result
        /\ LET a == mret.connects[1]
           IN a.result.kind = "Ok" =>
                /\ a.opened /\ sid = a.sid /\ sid \notin Dropped
                /\ SubSeq(tx, 1, Len(a.tx)) = a.tx
                /\ WentWell(a, 1) /\ a.log[1].command = <<"login">>
                /\ WentWell(a, 2) /\ a.log[2].command = <<"use">>
                /\ cfg.name.some =>
                      /\ Len(a.log) >= 3
                      /\ a.log[3].command = <<"clientupdate", cfg.name.val>>
                /\ conn_id = None(0)
                /\ last_ping = mret.at

\* A get() at a later time whose health check timed out on a connection
\* with a cached client id, and whose reconnect (with rename) succeeded.
C11_Witness ==
    /\ mret.op = "get" /\ PingFailed /\ mret.ping.kind = "Io"
    /\ Len(mret.connects) = 1 /\ mret.connects[1].result.kind = "Ok"
    /\ Len(mret.connects[1].log) = 3
    /\ mret.at > 0 /\ sid = 2 /\ 1 \in Dropped

\* C12: one call of get() or force_reconnect() makes at most one connect;
\* if that connect fails, at whatever step, its error is what the call
\* returns and the connection held stays the old one.
C12_OneReconnectAttempt ==
    /\ Len(mret.connects) <= 1
    /\ ( /\ mret.op \in {"get", "force_reconnect"}
         /\ mret.connects # <<>>
         /\ mret.connects[1].result.kind # "Ok" )
       => /\ mret.result = mret.connects[1].result
          /\ sid # mret.connects[1].sid
          /\ mret.connects[1].opened => mret.connects[1].sid \in Dropped

\* A get() whose reconnect timed out at the rename, after login and selection.
C12_Witness ==
    /\ mret.op = "get" /\ PingFailed
    /\ Len(mret.connects) = 1
    /\ Len(mret.connects[1].log) = 3
    /\ mret.connects[1].result.kind = "Io"
    /\ mret.result.kind = "Io"

\* C13: a connect sends at most two renames; the second only after the
\* first failed with server error 513, and with the fallback name; a first
\* failure of another kind, or a failure of the second, is returned as it is.
C13_RenameRetriedOnce ==
    \A i \in 1..Len(mret.connects) :
        LET a == mret.connects[i]
            rs == Renames(a)
            name == mret.config.name.val
        IN /\ Len(rs) <= 2
           /\ Len(rs) >= 1 => rs[1].command = <<"clientupdate", name>>
           /\ Len(rs) = 2 =>
                 /\ NameTaken(rs[1])
                 /\ \E time \in Timestamps :
                       rs[2].command = <<"clientupdate", calc_name_retry(name, time)>>
                 /\ rs[2].command[2] # name
                 /\ Failed(rs[2]) => a.result = rs[2].result
           /\ (Len(rs) >= 1 /\ NameTaken(rs[1])) => Len(rs) = 2
           /\ (Len(rs) >= 1 /\ Failed(rs[1]) /\ ~NameTaken(rs[1])) =>
                 (Len(rs) = 1 /\ a.result = rs[1].result)

\* A connect whose rename and fallback rename both failed with error 513.
C13_Witness ==
    /\ mret.connects # <<>>
    /\ Len(Renames(mret.connects[1])) = 2
    /\ NameTaken(Renames(mret.connects[1])[2])
    /\ mret.result.kind = "ServerError"

\* C14: on the stream of a connect the commands are login, then the server
\* selection, then the rename(s); the rename only with a name configured;
\* after a failed login or selection nothing more of them is sent and the
\* connect returns that error.
C14_ConnectOrder ==
    \A i \in 1..Len(mret.connects) :
        LET a == mret.connects[i]
        IN /\ a.opened <=> a.log # <<>>
           /\ Len(a.log) >= 1 => a.log[1].command = <<"login">>
           /\ Len(a.log) >= 2 => (WentWell(a, 1) /\ a.log[2].command = <<"use">>)
           /\ Len(a.log) >= 3 =>
                 /\ WentWell(a, 2) /\ mret.config.name.some
                 /\ \A j \in 3..Len(a.log) : IsRename(a.log[j])
           /\ \A j \in 1..Len(a.log) :
                 (j <= 2 /\ Failed(a.log[j])) =>
                     (Len(a.log) = j /\ a.result = a.log[j].result)
           /\ (WentWell(a, 2) /\ mret.config.name.some /\ ~TooLong(mret.config)) =>
                 Len(a.log) >= 3

\* A reconnect that stopped at a failed server selection, with a name configured.
C14_Witness ==
    /\ mret.op = "force_reconnect" /\ mret.config.name.some
    /\ Len(mret.connects) = 1
    /\ Len(mret.connects[1].log) = 2
    /\ mret.connects[1].result.kind = "ServerError"

C16_CachedIdOfOwnConnection ==
    /\ [](/\ conn_id.some => conn_id.val = sid
          /\ (mret.op = "new" /\ mret.result.kind = "Ok") => ~conn_id.some
          /\ ( /\ mret.op \in {"get", "force_reconnect"}
               /\ mret.connects # <<>>
               /\ mret.connects[1].result.kind = "Ok" ) => ~conn_id.some
          /\ (mret.op = "conn_id" /\ mret.result.kind = "Ok") =>
                (conn_id.some /\ mret.result.id = conn_id.val)
          /\ (mret.op = "conn_id" /\ mret.result.kind # "Ok") => ~conn_id.some)
    /\ [][(conn_id.some /\ mret'.op = "conn_id")
            => (tx' = tx /\ conn_id' = conn_id /\ sid' = sid
                /\ mret'.result = OkVal(conn_id.val))]_vars

\* conn_id() cached the id of the second stream, after the id of the first
\* had been cached and a reconnect had emptied the cache.
C16_Witness ==
    /\ conn_id = Some(2) /\ sid = 2 /\ 1 \in Dropped
    /\ mret.op = "conn_id" /\ ~mret.pinged

\* conn_id() failed on an identity without client_id and cached nothing.
C16_WitnessNoEntry ==
    /\ mret.op = "conn_id" /\ mret.result.kind = "NoEntryResponse"
    /\ ~conn_id.some

\* C17: clone(Some(n)) makes the sibling from the configuration with the
\* display name n and everything else as in the original; clone(None)
\* from the original configuration.
C17_CloneTakesNewName ==
    sibling.some =>
        sibling.cfg = IF sibling.asked.some
                      THEN [cfg EXCEPT !.name = sibling.asked]
                      ELSE cfg

\* The base calc_name_retry is to keep of a name, the bytes it may add, and
\* the bytes the result has after the base.
BaseOf(name) ==
    IF Len(name) < MAX_LEN_NAME - 2 THEN name
    ELSE SubSeq(name, 1, MAX_LEN_NAME \div 2)
Budget(name) == MAX_LEN_NAME - Len(BaseOf(name))
Suffix == DropFirst(calc.out, Len(BaseOf(calc.name)))

\* C18: for every name and timestamp the name calc_name_retry returns has
\* at most MAX_LEN_NAME bytes.
C18_FallbackFits == calc.pc = "done" => Len(calc.out) <= MAX_LEN_NAME

\* A name longer than MAX_LEN_NAME and a timestamp longer than that, too.
C18_Witness ==
    /\ calc.pc = "done"
    /\ Len(calc.name) > MAX_LEN_NAME /\ Len(calc.time) > MAX_LEN_NAME
    /\ Len(calc.out) = MAX_LEN_NAME

\* C19: calc_name_retry returns base + suffix: the base is the name if it
\* has fewer than MAX_LEN_NAME - 2 bytes and its first MAX_LEN_NAME / 2
\* bytes otherwise, the suffix one or more digits of the timestamp.
C19_BasePlusSuffix ==
    calc.pc # "input" =>
        /\ calc.pc = "done"
        /\ StartsWith(calc.out, BaseOf(calc.name))
        /\ Len(calc.out) > Len(BaseOf(calc.name))
        /\ \A i \in 1..Len(Suffix) : Suffix[i] \in Digits

\* C20: the suffix is the whole timestamp when the budget left by the base
\* is at least its length, and its last `budget` digits otherwise.
C20_SuffixDigits ==
    calc.pc = "done" =>
        /\ StartsWith(calc.out, BaseOf(calc.name))
        /\ Suffix = IF Budget(calc.name) >= Len(calc.time)
                    THEN calc.time
                    ELSE SubSeq(calc.time,
                                Len(calc.time) - Budget(calc.name) + 1,
                                Len(calc.time))

\* A timestamp of 13 digits cut to its last 10 after a truncated name.
C20_Witness ==
    /\ calc.pc = "done"
    /\ Len(calc.name) = MAX_LEN_NAME - 2 /\ Len(calc.time) = 13
    /\ Suffix = SubSeq(calc.time, 4, 13)

----------------------------------------------------------------------------
(* The command lines written for the strings of callers *)

\* The bytes that separate the parts of a command line and the command
\* lines from each other, as they follow each other in l.
IsSeparator(b) == b \in {" ", "|", LF, CR}
SeparatorsOf(l) == SelectSeq(l, IsSeparator)

\* The call with empty strings in place of the caller's.
WithoutStrings(a) == [a EXCEPT !.s = <<>>, !.t = <<>>]

\* C21: every command operation escapes the strings of its caller: the
\* line it writes has the spaces of its format string and one final line
\* feed and no other raw space, pipe, line feed or carriage return, so the
\* bytes written are exactly one command line whatever the strings hold.
C21_CallerStringsEscaped ==
    (call.pc = "called" /\ tx # <<>>) =>
        SeparatorsOf(tx[1]) = SeparatorsOf(CommandLine(WithoutStrings(call.a)))

\* The operations other than poke_client do escape their strings.
C21_EscapedExceptPoke ==
    (call.pc = "called" /\ tx # <<>> /\ call.a.op # "poke_client") =>
        SeparatorsOf(tx[1]) = SeparatorsOf(CommandLine(WithoutStrings(call.a)))

----------------------------------------------------------------------------
(* The codec's tables *)

\* The bytes that must not be left raw, and the escape of each byte.
RawSpecials == {" ", "|", "BEL", "BS", "FF", LF, CR, "TAB", "VT"}
EscapeOf(b) ==
    CASE b = BSL   -> <<BSL, BSL>>
      [] b = "/"   -> <<BSL, "/">>
      [] b = " "   -> <<BSL, "s">>
      [] b = "|"   -> <<BSL, "p">>
      [] b = "BEL" -> <<BSL, "a">>
      [] b = "BS"  -> <<BSL, "b">>
      [] b = "FF"  -> <<BSL, "f">>
      [] b = LF    -> <<BSL, "n">>
      [] b = CR    -> <<BSL, "r">>
      [] b = "TAB" -> <<BSL, "t">>
      [] b = "VT"  -> <<BSL, "v">>
      [] OTHER     -> <<b>>
EscapePairs == {EscapeOf(b) : b \in RawSpecials \cup {BSL, "/"}}

\* s is, read from the left, plain bytes and two-byte escapes of the table.
RECURSIVE WellEscaped(_)
WellEscaped(s) ==
    IF s = <<>> THEN TRUE
    ELSE IF Head(s) = BSL
    THEN Len(s) >= 2 /\ SubSeq(s, 1, 2) \in EscapePairs /\ WellEscaped(DropFirst(s, 2))
    ELSE WellEscaped(Tail(s))

\* The raw byte of the marker m, and m itself when m is no marker.
RawOf(m) ==
    IF \E b \in RawSpecials : EscapeOf(b) = <<BSL, m>>
    THEN CHOOSE b \in RawSpecials : EscapeOf(b) = <<BSL, m>>
    ELSE m

\* s decoded pair by pair from the left; a last backslash with nothing
\* after it decodes to what `lone` says.
RECURSIVE Decoded(_, _)
Decoded(s, lone) ==
    IF s = <<>> THEN <<>>
    ELSE IF Head(s) # BSL THEN <<Head(s)>> \o Decoded(Tail(s), lone)
    ELSE IF Len(s) = 1 THEN lone
    ELSE <<RawOf(s[2])>> \o Decoded(DropFirst(s, 2), lone)

\* s ends with a backslash that escapes nothing and is not escaped itself:
\* the backslashes at its end are odd in number.
RECURSIVE TrailingBackslashes(_)
TrailingBackslashes(s) ==
    IF s # <<>> /\ Last(s) = BSL THEN 1 + TrailingBackslashes(Front(s)) ELSE 0
LoneBackslash(s) == TrailingBackslashes(s) % 2 = 1

\* C22: what escape_arg returns holds no raw space, pipe, BEL, BS, FF, LF,
\* CR, TAB or VT, and every backslash met reading it from the left starts
\* one of the escaper's two-byte sequences.
C22_NoRawSpecials ==
    c_pc = "escaped" =>
        /\ \A i \in 1..Len(c_esc) : c_esc[i] \notin RawSpecials
        /\ WellEscaped(c_esc)

\* A pipe between a backslash and a line feed, all three escaped.
C22_Witness ==
    /\ c_pc = "escaped"
    /\ c_in = <<BSL, "|", LF>>
    /\ c_esc = <<BSL, BSL, BSL, "p", BSL, "n">>

\* C23: escape_arg replaces each byte of the table by its two-byte escape
\* and copies every other byte, NUL included, in order; unescape_val turns
\* backslash + marker into the marker's raw byte and backslash + any other
\* byte into that byte (on an input whose last backslash has its byte).
C23_Tables ==
    /\ c_pc = "escaped" => c_esc = Concat([i \in 1..Len(c_in) |-> EscapeOf(c_in[i])])
    /\ (c_pc = "unescaped" /\ ~LoneBackslash(c_in)) => c_out = Decoded(c_in, <<>>)

\* An unknown escape in front of a NUL.
C23_Witness ==
    /\ c_pc = "unescaped"
    /\ c_in = <<BSL, "x", NUL>>
    /\ c_out = <<"x", NUL>>

\* A slash and a NUL escaped.
C23_WitnessEscape ==
    /\ c_pc = "escaped"
    /\ c_in = <<"/", NUL, "VT">>
    /\ c_esc = <<BSL, "/", NUL, BSL, "v">>

\* C24: unescape_val of an input that ends with a lone backslash returns
\* what the input before it decodes to, followed by a backslash.
C24_LoneBackslashKept ==
    (c_pc = "unescaped" /\ LoneBackslash(c_in)) => c_out = Decoded(c_in, <<BSL>>)

\* unescape_val drops the lone backslash and decodes the rest.
C24_LoneBackslashDropped ==
    (c_pc = "unescaped" /\ LoneBackslash(c_in)) => c_out = Decoded(c_in, <<>>)

----------------------------------------------------------------------------
(* The records of lines *)

\* The entries of a line: what stands between runs of ASCII whitespace.
RECURSIVE AsciiEntries(_)
AsciiEntries(l) ==
    IF l = <<>> THEN <<>>
    ELSE IF IsWhitespace(Head(l)) THEN AsciiEntries(Tail(l))
    ELSE LET ends == {i \in 1..Len(l) : i = Len(l) \/ IsWhitespace(l[i + 1])}
             k == CHOOSE i \in ends : \A j \in ends : i <= j
         IN <<SubSeq(l, 1, k)>> \o AsciiEntries(DropFirst(l, k))

\* The key of an entry, before its first '=', and its value, all that is
\* after its first '='; None for an entry without '='.
Equals(e) == {i \in 1..Len(e) : e[i] = "="}
KeyOf(e) == IF Equals(e) = {} THEN e ELSE SubSeq(e, 1, IndexOf(e, "=") - 1)
ValueOf(e, unescape) ==
    IF Equals(e) = {} THEN None(<<>>)
    ELSE LET v == DropFirst(e, IndexOf(e, "="))
         IN Some(IF unescape THEN unescape_val(v) ELSE v)

\* The record of the entries es: each key with the value of its last entry.
RecordOf(es, unescape) ==
    [k \in {KeyOf(es[i]) : i \in 1..Len(es)} |->
        LET is == {i \in 1..Len(es) : KeyOf(es[i]) = k}
        IN ValueOf(es[CHOOSE i \in is : \A j \in is : j <= i], unescape)]

HasNBSP(l) == \E i \in 1..Len(l) : l[i] = NBSP[1]
OneLine == call.pc = "parse_hashmap" /\ Len(call.input) = 1

\* C25: a line parses to the record of its entries between runs of ASCII
\* whitespace: an entry key=value gives key -> Some(value), with Some("")
\* for "key=", an entry without '=' gives key -> None; the value is
\* unescaped when `unescape` is set and verbatim otherwise, the key never.
\* (Of lines whose entries have one '=' at most.)
C25_RecordOfEntries ==
    LET es == AsciiEntries(call.input[1])
    IN (OneLine /\ \A i \in 1..Len(es) : Cardinality(Equals(es[i])) <= 1) =>
           call.out = RecordOf(es, call.unescape)

\* The same of lines without a whitespace character beyond ASCII.
C25_RecordOfAsciiEntries ==
    LET es == AsciiEntries(call.input[1])
    IN (OneLine /\ ~HasNBSP(call.input[1])
        /\ \A i \in 1..Len(es) : Cardinality(Equals(es[i])) <= 1) =>
           call.out = RecordOf(es, call.unescape)

\* C26: an entry is split once, at its first '=': its value is all that
\* follows, further '=' included.  (Of lines of ASCII whitespace only.)
C26_SplitAtFirstEquals ==
    (OneLine /\ ~HasNBSP(call.input[1])) =>
        call.out = RecordOf(AsciiEntries(call.input[1]), call.unescape)

\* The pipes of a line and its j-th piece between them.
Pipes(l) == {i \in 1..Len(l) : l[i] = "|"}
Piece(l, j) ==
    LET before(i) == Cardinality({p \in Pipes(l) : p < i})
    IN SelectSeq([i \in 1..Len(l) |-> <<i, l[i]>>],
                 LAMBDA x : x[2] # "|" /\ before(x[1]) = j - 1)

\* C27: parse_multi_hashmap returns, line after line, one record for each
\* piece between the pipes of the line, from left to right: as many records
\* as there are lines and pipes together.
C27_RecordPerPiece ==
    call.pc = "parse_multi_hashmap" =>
        LET pieces(l) == [j \in 1..(Cardinality(Pipes(l)) + 1) |->
                             [i \in 1..Len(Piece(l, j)) |-> Piece(l, j)[i][2]]]
            all == Concat([n \in 1..Len(call.input) |-> pieces(call.input[n])])
        IN /\ Len(call.out) = Len(call.input)
                  + Cardinality(UNION {{n} \X Pipes(call.input[n]) :
                                          n \in 1..Len(call.input)})
           /\ Len(call.out) = Len(all)
           /\ \A r \in 1..Len(all) :
                  call.out[r] = parse_hashmap(<<all[r]>>, call.unescape)

\* Two lines, the first of two pieces: three records, in order.
C27_Witness ==
    /\ call.pc = "parse_multi_hashmap"
    /\ call.input = << <<"b", "=", "1", "|", "a", "=", "3">>, <<"a", "=", "1">> >>
    /\ Len(call.out) = 3
    /\ DOMAIN call.out[1] = {<<"b">>}
    /\ call.out[2] = [k \in {<<"a">>} |-> Some(<<"3">>)]
    /\ call.out[3] = [k \in {<<"a">>} |-> Some(<<"1">>)]

\* The entries of all lines in input order, as the parser splits them, and
\* the record of one entry.
AllEntries == Concat([n \in 1..Len(call.input) |-> SplitWhitespace(call.input[n])])
Single(e) == parse_hashmap(<<e>>, call.unescape)

\* C28: parse_hashmap merges the lines into one record: it has the keys of
\* all entries of all lines, each with the value of the last entry of that
\* key in input order.
C28_LastEntryWins ==
    call.pc = "parse_hashmap" =>
        /\ DOMAIN call.out = UNION {DOMAIN Single(AllEntries[i]) : i \in 1..Len(AllEntries)}
        /\ \A k \in DOMAIN call.out :
               LET is == {i \in 1..Len(AllEntries) : k \in DOMAIN Single(AllEntries[i])}
                   last == CHOOSE i \in is : \A j \in is : j <= i
               IN call.out[k] = Single(AllEntries[last])[k]

\* A key of the first line set again by the second, another left as it was.
C28_Witness ==
    /\ call.pc = "parse_hashmap"
    /\ call.input = << <<"a", "=", "2", " ", "b">>, <<"a", "=", "1">> >>
    /\ call.out = [k \in {<<"a">>, <<"b">>} |->
                      IF k = <<"a">> THEN Some(<<"1">>) ELSE None(<<>>)]

\* A key with a value made a flag by a later line: the key stays.
C28_WitnessFlag ==
    /\ call.pc = "parse_hashmap"
    /\ call.input = << <<"a", "=", "1">>, <<"a">> >>
    /\ call.out = [k \in {<<"a">>} |-> None(<<>>)]

----------------------------------------------------------------------------
(* The values taken out of records *)

Taken(i) == call.log[i]
Optional == {"int_val_parser_opt", "string_val_parser_opt"}

\* C29: a helper that succeeds for a key has removed the key and left every
\* other key as it was, and a later call of any helper for the same key
\* fails with the field-missing error.
C29_TakenOnce ==
    call.pc = "record" =>
        /\ \A i \in 1..Len(call.log) :
               Taken(i).ok =>
                   /\ Taken(i).key \in DOMAIN Taken(i).before
                   /\ DOMAIN Taken(i).after = DOMAIN Taken(i).before \ {Taken(i).key}
                   /\ \A k \in DOMAIN Taken(i).after : Taken(i).after[k] = Taken(i).before[k]
        /\ \A i, j \in 1..Len(call.log) :
               (i < j /\ Taken(i).ok /\ Taken(j).key = Taken(i).key) =>
                   /\ ~Taken(j).ok
                   /\ Taken(j).err = NoEntryResponse(Taken(j).key)

\* A list taken out of a record of two keys, then asked for again.
C29_Witness ==
    /\ call.pc = "record" /\ Len(call.log) = 2
    /\ Taken(1).helper = "int_list_val_parser" /\ Taken(1).key = <<"k">>
    /\ Taken(1).ok /\ Taken(1).val = <<1, 2>>
    /\ Taken(1).after = [k \in {<<"l">>} |-> Some(<<"7">>)]
    /\ Taken(2).helper = "string_val_parser_opt" /\ Taken(2).key = <<"k">>
    /\ Taken(2).err = NoEntryResponse(<<"k">>)

\* The pieces a helper parses as integers: the value for the integer
\* helpers, the pieces between the commas of the unescaped value for the
\* list helper, none for the string helpers.
PiecesOf(t) ==
    LET v == t.before[t.key].val
    IN CASE t.helper \in {"int_val_parser", "int_val_parser_opt"} -> <<v>>
         [] t.helper = "bool_val_parser" -> <<v>>
         [] t.helper = "int_list_val_parser" -> Split(unescape_val(v), ",")
         [] OTHER -> <<>>
TypeOf(t) == IF t.helper = "bool_val_parser" THEN "i32" ELSE t.T
AllParse(t) == \A n \in 1..Len(PiecesOf(t)) : ParseInt(TypeOf(t), PiecesOf(t)[n]).ok

\* C30: a helper fails with the field-missing error when the key is absent,
\* with the value-missing error when the key is a flag and the helper
\* requires a value, and with the type error when a value or a piece of a
\* list is no integer of the type asked for; an optional helper returns
\* Ok(None) for a flag; in every other case the helper succeeds.
C30_ThreeFailures ==
    call.pc = "record" =>
        \A i \in 1..Len(call.log) :
            LET t == Taken(i)
            IN IF t.key \notin DOMAIN t.before
               THEN ~t.ok /\ t.err = NoEntryResponse(t.key)
               ELSE IF ~t.before[t.key].some
               THEN IF t.helper \in Optional
                    THEN t.ok /\ ~t.val.some
                    ELSE ~t.ok /\ t.err = NoValueResponse(t.key)
               ELSE IF AllParse(t) THEN t.ok
               ELSE ~t.ok /\ t.err.kind = "InvalidIntResponse"

\* The value-missing error, then the field-missing error for the same key.
C30_Witness ==
    /\ call.pc = "record" /\ Len(call.log) = 2
    /\ Taken(1).helper = "string_val_parser" /\ Taken(1).err = NoValueResponse(<<"k">>)
    /\ Taken(2).helper = "int_val_parser_opt" /\ Taken(2).err = NoEntryResponse(<<"k">>)

\* The type error for the bad piece of a list, and Ok(None) for a flag.
C30_WitnessTypeError ==
    /\ call.pc = "record" /\ Len(call.log) = 2
    /\ Taken(1).helper = "int_list_val_parser"
    /\ Taken(1).err = InvalidIntResponse(<<"x">>)
    /\ Taken(2).helper = "int_val_parser_opt" /\ Taken(2).key = <<"l">>
    /\ Taken(2).ok /\ Taken(2).val = None(0)

\* The bytes the reads of the last read_response took in all, the last of
\* these reads, and the bytes it took: the line that was being read when
\* the call returned.
RECURSIVE SumTaken(_)
SumTaken(reads) ==
    IF reads = <<>> THEN 0 ELSE SumTaken(Front(reads)) + Last(reads).taken
LastRead == Last(ret.reads)
LastLine ==
    SubSeq(ret.seen, SumTaken(Front(ret.reads)) + 1, SumTaken(ret.reads))

\* The stream ended while a line was being read: the server had closed it,
\* the last read took all that was left without using up its budget, and
\* what it took holds no CR.
EndedInLine ==
    /\ Called /\ ret.closed
    /\ SumTaken(ret.reads) = Len(ret.seen)
    /\ LastRead.taken < LastRead.limit
    /\ IndexOf(LastLine, CR) = 0

\* C31: when the stream ends before the CR of the line being read, with none
\* or some bytes of that line received, read_response fails with
\* ConnectionClosed.
C31_EndOfStream == EndedInLine => ret.result = ConnectionClosed

\* The stream ended with no byte of the line received: ConnectionClosed.
C31_EndedAtLineStart ==
    (EndedInLine /\ LastLine = <<>>) => ret.result = ConnectionClosed

\* The stream ended with some bytes of the line received: InvalidResponse
\* carrying these bytes.
C31_EndedAfterSomeBytes ==
    (EndedInLine /\ LastLine # <<>>)
        => ret.result = InvalidResponse("expected \\r delimiter, got: ", LastLine)

\* The line being read used up its budget before its CR: the last read took
\* as many bytes as its limit allowed and none of them is a CR.
UsedUpBudget ==
    /\ Called
    /\ LastRead.taken = LastRead.limit
    /\ IndexOf(LastLine, CR) = 0

\* The complete lines the reads before the last one took, blank ones left out.
LinesBefore == NonEmpty(LinesOf(SubSeq(ret.seen, 1, SumTaken(Front(ret.reads)))))

\* C32 as stated: when a line uses up the per-line budget before its CR, the
\* error is ResponseLimit on the last line that limit_lines permits and an
\* error of another kind on any earlier line.
C32_ErrorByPosition ==
    UsedUpBudget =>
        IF Len(ret.reads) = ret.lines
        THEN ret.result.kind = "ResponseLimit"
        ELSE ret.result.kind \notin {"Ok", "ResponseLimit"}

\* C32: when a line uses up a per-line budget of at least one byte before
\* its CR, read_response fails with ResponseLimit carrying the lines read
\* before, on the last line that limit_lines permits and on any earlier one.
C32_SameErrorAtAnyPosition ==
    (UsedUpBudget /\ LastRead.limit >= 1) => ret.result = ResponseLimit(LinesBefore)

\* A line that used up its budget with more lines still permitted.
C32_Witness ==
    /\ UsedUpBudget /\ LastRead.limit >= 1
    /\ Len(ret.reads) < ret.lines
    /\ ret.result.kind = "ResponseLimit"

\* A line that used up its budget as the last line permitted.
C32_WitnessLastLine ==
    /\ UsedUpBudget /\ LastRead.limit >= 1
    /\ Len(ret.reads) = ret.lines
    /\ ret.result.kind = "ResponseLimit"

\* What the i-th read of the last read_response had before it in the stream,
\* and the lines taken by the reads up to the i-th, blank ones left out.
RestAt(i) == DropFirst(ret.seen, SumTaken(SubSeq(ret.reads, 1, i - 1)))
LinesUpTo(i) ==
    NonEmpty(LinesOf(SubSeq(ret.seen, 1, SumTaken(SubSeq(ret.reads, 1, i)))))

\* The i-th read took a complete line and the loop went on from it: the next
\* read has the budget of a new line, or the call ended on that line (a
\* status line, a line that is no UTF-8, or the last line permitted, which
\* the ResponseLimit then carries).
Accepted(i) ==
    /\ EndsWith(SubSeq(RestAt(i), 1, ret.reads[i].taken), CR)
    /\ IF i < Len(ret.reads)
       THEN ret.reads[i + 1].limit = LIMIT_LINE_BYTES
       ELSE \/ ReadStatus(ret.result)
            \/ ret.result.kind = "Utf8Error"
            \/ i = ret.lines /\ ret.result = ResponseLimit(LinesUpTo(i))

\* The i-th read ended the call with the DoS-limit error, the line not taken
\* as one.
Rejected(i) ==
    /\ i = Len(ret.reads)
    /\ ret.result = ResponseLimit(LinesUpTo(i - 1))
    /\ ~EndsWith(SubSeq(RestAt(i), 1, ret.reads[i].taken), CR)

\* C38: a read with a budget of L bytes accepts a line whose CR is its L-th
\* byte and goes on with the budget of a new line, and rejects a line whose
\* CR is its (L+1)-th byte with ResponseLimit.
C38_ExactBoundary ==
    Called =>
        \A i \in 1..Len(ret.reads) :
            LET L == ret.reads[i].limit
                k == IndexOf(RestAt(i), CR)
            IN /\ (k >= 1 /\ k = L) => Accepted(i)
               /\ k = L + 1 => Rejected(i)

\* The same for budgets of at least one byte.
C38_ExactBoundaryFromOne ==
    Called =>
        \A i \in 1..Len(ret.reads) :
            LET L == ret.reads[i].limit
                k == IndexOf(RestAt(i), CR)
            IN L >= 1 => /\ k = L => Accepted(i)
                         /\ k = L + 1 => Rejected(i)

\* With a budget of 0 a line that is its CR alone ends the call with
\* ConnectionClosed.
C38_NoBudget ==
    (Called /\ ret.reads[1].limit = 0 /\ IndexOf(ret.seen, CR) = 1)
        => ret.result = ConnectionClosed

\* C39: a helper that fails with the field-missing error leaves the record
\* as it was; one that fails with the value-missing error or with a type
\* error has removed the key and nothing else, and the next call of a helper
\* for that key fails with the field-missing error.
C39_FailureRemovesKey ==
    call.pc = "record" =>
        \A i \in 1..Len(call.log) :
            LET t == Taken(i)
            IN ~t.ok =>
                IF t.err = NoEntryResponse(t.key)
                THEN t.after = t.before
                ELSE /\ t.err.kind \in {"NoValueResponse", "InvalidIntResponse"}
                     /\ t.key \in DOMAIN t.before
                     /\ t.after = [k \in DOMAIN t.before \ {t.key} |-> t.before[k]]
                     /\ \A j \in (i + 1)..Len(call.log) :
                            Taken(j).key = t.key
                                => ~Taken(j).ok /\ Taken(j).err = NoEntryResponse(t.key)

\* A type error for a key, then the field-missing error for the same helper
\* and key, the other key still in the record.
C39_Witness ==
    /\ call.pc = "record" /\ Len(call.log) = 2
    /\ Taken(1).helper = "int_val_parser" /\ Taken(1).key = <<"k">>
    /\ Taken(1).err = InvalidIntResponse(<<"x">>)
    /\ Taken(2).helper = "int_val_parser" /\ Taken(2).key = <<"k">>
    /\ Taken(2).err = NoEntryResponse(<<"k">>)
    /\ DOMAIN call.data = {<<"l">>}

\* The value-missing error for a flag, then the field-missing error.
C39_WitnessNoValue ==
    /\ call.pc = "record" /\ Len(call.log) = 2
    /\ Taken(1).helper = "bool_val_parser" /\ Taken(1).key = <<"l">>
    /\ Taken(1).err = NoValueResponse(<<"l">>)
    /\ Taken(2).helper = "bool_val_parser" /\ Taken(2).key = <<"l">>
    /\ Taken(2).err = NoEntryResponse(<<"l">>)

\* The field-missing error on a record that holds the other key.
C39_WitnessNoEntry ==
    /\ call.pc = "record" /\ Len(call.log) = 1
    /\ Taken(1).err = NoEntryResponse(<<"k">>)
    /\ Taken(1).before = Taken(1).after /\ DOMAIN Taken(1).after = {<<"l">>}

\* A name that holds a character of more than one byte.
MultiByte(name) == \E i \in 1..Len(name) : name[i] = LeadByte

\* C40: calc_name_retry returns a value for every name that passes the
\* length check of connect (at most MAX_LEN_NAME bytes), the names of
\* MAX_LEN_NAME - 2 to MAX_LEN_NAME bytes with multi-byte characters included.
C40_AlwaysReturns ==
    (calc.pc # "input" /\ Len(calc.name) <= MAX_LEN_NAME) => calc.pc = "done"

\* The call returns for every such name whose byte MAX_LEN_NAME / 2 ends a
\* character, and for every shorter name.
C40_ReturnsOnBoundary ==
    ( /\ calc.pc # "input" /\ Len(calc.name) <= MAX_LEN_NAME
      /\ \/ Len(calc.name) < MAX_LEN_NAME - 2
         \/ IsCharBoundary(calc.name, MAX_LEN_NAME \div 2) )
    => calc.pc = "done"

\* It panics for every name of MAX_LEN_NAME - 2 bytes or more whose byte
\* MAX_LEN_NAME / 2 is inside a character.
C40_PanicsInsideCharacter ==
    ( /\ calc.pc # "input" /\ Len(calc.name) >= MAX_LEN_NAME - 2
      /\ MultiByte(calc.name)
      /\ ~IsCharBoundary(calc.name, MAX_LEN_NAME \div 2) )
    => calc.pc = "panic"

\* A step that is a call of force_reconnect, and the QueryClient held before
\* it as it is left by a drop: `quit` written unless the server had closed
\* the stream, and the stream shut down.
ForceReconnectStep == mret'.op = "force_reconnect" /\ (mret' # mret \/ gen' # gen)
OldReleased ==
    [sid |-> sid, tx |-> IF eof THEN tx ELSE Append(tx, <<"quit">>),
     eof |-> eof, shut |-> TRUE]

\* C37: a force_reconnect that succeeds releases the old connection, and
\* does so with the new stream opened and login, the server selection and
\* the rename done on it; one whose connect fails releases the new stream
\* only and leaves the connection held, the cached client id and last_ping
\* as they were.
C37_ReleaseAfterConnect ==
    [][ForceReconnectStep =>
          LET a == mret'.connects[1]
          IN IF mret'.result.kind = "Ok"
             THEN /\ a.opened /\ a.result.kind = "Ok"
                  /\ WentWell(a, 1) /\ a.log[1].command = <<"login">>
                  /\ WentWell(a, 2) /\ a.log[2].command = <<"use">>
                  /\ cfg.name.some =>
                        (IsRename(Last(a.log)) /\ Last(a.log).result.kind = "Ok")
                  /\ sid' = a.sid /\ sid' # sid /\ tx' = a.tx
                  /\ released' = Append(released, OldReleased)
             ELSE /\ sid' = sid
                  /\ UNCHANGED <<rx, late, eof, tx, limit_lines, limit_lines_bytes>>
                  /\ conn_id' = conn_id /\ last_ping' = last_ping
                  /\ sid \notin {released'[i].sid : i \in 1..Len(released')}
                  /\ released' = IF a.opened
                                 THEN Append(released,
                                             [sid |-> a.sid, tx |-> a.tx,
                                              eof |-> Last(released').eof,
                                              shut |-> TRUE])
                                 ELSE released]_vars

\* A force_reconnect whose connect failed at the server selection on the new
\* stream, the cached client id and the old connection still held.
C37_Witness ==
    /\ mret.op = "force_reconnect" /\ mret.result.kind # "Ok"
    /\ mret.connects[1].opened /\ Len(mret.connects[1].log) = 2
    /\ conn_id.some /\ sid = 1 /\ Dropped = {2}

\* A force_reconnect that succeeded: the old stream got `quit` and was shut
\* down, the connection held is the one on the new stream.
C37_WitnessReleased ==
    /\ mret.op = "force_reconnect" /\ mret.result.kind = "Ok"
    /\ sid = 2 /\ Len(released) = 1
    /\ released[1].sid = 1 /\ Last(released[1].tx) = <<"quit">> /\ released[1].shut
    /\ conn_id = None(0)

\* The commands of tx that are `quit`, and the commands an attempt read a
\* response for.
Quits(t) == {i \in 1..Len(t) : t[i] = <<"quit">>}
Answered(a) == [i \in 1..Len(a.log) |-> a.log[i].command]

\* C35: a released QueryClient has had `quit` written as its last command,
\* once, and its stream shut down after it; when the write fails (the server
\* had closed the stream) the stream is shut down all the same and the
\* operation returns what its connect returned; no response is read for
\* `quit`; and a released stream is never written to again nor held again.
C35_QuitThenShutdown ==
    [][/\ \A i \in 1..Len(released') :
             LET r == released'[i]
             IN /\ r.shut
                /\ Quits(r.tx) = IF r.eof THEN {} ELSE {Len(r.tx)}
                /\ i <= Len(released) => r = released[i]
                /\ r.sid # sid'
       /\ Quits(tx') = {}
       /\ \A i \in 1..Len(mret'.connects) :
             LET a == mret'.connects[i]
             IN /\ a.result.kind # "Ok" =>
                     a.tx \in {Answered(a), Append(Answered(a), <<"quit">>)}
                /\ mret'.connects # <<>> => mret'.result = Last(mret'.connects).result
      ]_vars

\* A reconnect released the first stream with `quit` as its last command,
\* and a later get() wrote its health check on the second.
C35_Witness ==
    /\ mret.op = "get" /\ mret.pinged /\ mret.ping.kind = "Ok"
    /\ sid = 2 /\ Len(released) = 1 /\ released[1].sid = 1
    /\ released[1].shut /\ ~released[1].eof
    /\ Quits(released[1].tx) = {Len(released[1].tx)}
    /\ Last(tx) = <<"whoami">>

\* The write of `quit` failed on a stream the server had closed; the stream
\* was shut down and the reconnect returned Ok.
C35_WitnessWriteFailed ==
    /\ mret.op \in {"get", "force_reconnect"} /\ mret.result.kind = "Ok"
    /\ mret.connects # <<>>
    /\ Len(released) = 1 /\ released[1].eof /\ released[1].shut
    /\ Quits(released[1].tx) = {}

\* No byte of a response is left to read on the connection held, received
\* or still under way; and a step that is a call of get().
Synchronized == rx = <<>> /\ late = <<>>
GetStep == mret'.op = "get" /\ (mret' # mret \/ tx' # tx \/ gen' # gen)

C36_WitnessReplaced ==
    /\ mret.op = "get" /\ mret.result.kind = "Ok" /\ PingFailed
    /\ sid = 2 /\ Synchronized

\* The items "cldbid=<id>" of a list of ids, and the pieces of a rendering
\* between its '|'.
Items(ids) == [i \in 1..Len(ids) |-> <<"cldbid=">> \o to_string(ids[i])]
Rendered(ids, out) ==
    IF ids = <<>> THEN out = <<>> ELSE Split(out, "|") = Items(ids)

\* The keyword of an operation, and what a line holds after `<keyword>
\* sgid=<group> ` and before its end of line.
KeywordOf(op) ==
    IF op = "server_group_del_clients" THEN "servergroupdelclient"
    ELSE "servergroupaddclient"
LineStart(e) == <<KeywordOf(e.op), " ", "sgid=">> \o to_string(e.group) \o <<" ">>
IdsOf(e, line) == SubSeq(line, Len(LineStart(e)) + 1, Len(line) - 1)

\* C33: format_cldbids renders a list as its items "cldbid=<id>" in order
\* with one '|' between two items and none before the first or after the
\* last, and the empty list as the empty string; server_group_add_clients
\* and server_group_del_clients return Ok for an empty list without writing
\* or reading anything, and write one line with the rendering otherwise.
C33_FormatCldbids ==
    /\ call.pc = "format_cldbids" => Rendered(call.it, call.out)
    /\ call.pc = "group" =>
          \A i \in 1..Len(call.log) :
              LET e == call.log[i]
              IN IF e.cldbid = <<>>
                 THEN e.result = Ok(<<>>) /\ e.wrote = <<>> /\ e.reads = <<>> /\ e.left
                 ELSE /\ Len(e.wrote) = 1
                      /\ StartsWith(e.wrote[1], LineStart(e))
                      /\ Last(e.wrote[1]) = LF
                      /\ Rendered(e.cldbid, IdsOf(e, e.wrote[1]))

\* Three ids rendered with two '|', and the empty list.
C33_Witness ==
    /\ call.pc = "format_cldbids" /\ call.it = <<0, 12, 7>>
    /\ call.out = <<"cldbid=", "0", "|", "cldbid=", "1", "2", "|", "cldbid=", "7">>

C33_WitnessEmpty ==
    call.pc = "format_cldbids" /\ call.it = <<>> /\ call.out = <<>>

\* An empty list after a call whose response was cut by the server closing
\* the stream: Ok, nothing written, nothing read.
C33_WitnessNothingDone ==
    /\ call.pc = "group" /\ Len(call.log) = 2
    /\ call.log[1].cldbid = <<0, 12>> /\ call.log[1].result.kind # "Ok"
    /\ call.log[2].op = "server_group_add_clients"
    /\ call.log[2].cldbid = <<>> /\ call.log[2].closed
    /\ call.log[2].result = Ok(<<>>) /\ Len(tx) = 1

\* A client was made: the limits are those of a new QueryClient.
ClientMade == limit_lines = LIMIT_READ_LINES /\ limit_lines_bytes = LIMIT_LINE_BYTES
Timeouts == {"TimedOut", "WouldBlock"}

\* C34: the handshake reads a first banner line and then attempts a second
\* read; a TimedOut or WouldBlock error of the second read is taken as no
\* second banner and the client is made; any other error of the second
\* read, and any error of the first, ends the handshake with an Io error
\* and no client.
C34_Handshake ==
    call.pc \in {"ready", "failed"} =>
        LET s == call.s
            k == IndexOf(s.first, CR)
        IN /\ (call.pc = "ready") = (call.result.kind = "Ok")
           /\ (call.pc = "ready") = ClientMade
           /\ call.pc = "failed" => (call.result.kind = "Io" /\ tx = <<>> /\ rx = <<>>)
           /\ Len(call.reads) = IF call.reads[1].kind = "Ok" THEN 2 ELSE 1
           /\ call.reads[1].kind # "Ok" => call.pc = "failed"
           /\ (call.reads[1].kind = "Ok" /\ call.reads[2].kind \in Timeouts)
                 => call.pc = "ready"
           /\ (call.reads[1].kind = "Ok" /\ call.reads[2].kind \notin Timeouts \cup {"Ok"})
                 => call.pc = "failed"
           /\ s.reset = 1 => call.reads[1].kind = "ConnectionReset"
           /\ (s.reset # 1 /\ k # 0) =>
                 /\ call.reads[1] = [kind |-> "Ok", n |-> k, rest |-> DropFirst(s.first, k)]
                 /\ s.reset = 2 => call.reads[2].kind = "ConnectionReset"
                 /\ ( /\ s.reset = 0
                      /\ IndexOf(DropFirst(s.first, k) \o s.second, CR) = 0
                      /\ ~(s.closed /\ s.late = <<>>) )
                    => call.reads[2].kind = s.timeout
           /\ (s.reset # 1 /\ k = 0 /\ ~(s.closed /\ s.second = <<>> /\ s.late = <<>>))
                 => (call.reads[1].kind = s.timeout
                     /\ call.result = Io("reading response: "))

\* The first banner line was read, the second read timed out, and the
\* client made took the first command.
C34_Witness ==
    /\ call.pc = "ready"
    /\ call.s.first = BannerType /\ call.s.second = <<>> /\ call.s.late = <<>>
    /\ call.reads[2].kind = "WouldBlock"
    /\ tx = <<<<"raw">>>> /\ ret.result.kind = "Ok"

\* The second read failed with another error: no client.
C34_WitnessReset ==
    /\ call.pc = "failed" /\ call.s.first = BannerType \o BannerWelcome
    /\ call.reads[1].kind = "Ok" /\ call.reads[2].kind = "ConnectionReset"
    /\ call.result = Io("") /\ ~ClientMade

\* The first read timed out: no client.
C34_WitnessFirstTimedOut ==
    /\ call.pc = "failed" /\ call.s.first = <<>> /\ call.s.second = BannerType
    /\ call.reads[1].kind = "TimedOut"
    /\ call.result = Io("reading response: ") /\ ~ClientMade

====
